---- MODULE Spec2Model ----
(***************************************************************************)
(* Model of the generation-backend registry (LLMFactory) and of the        *)
(* response interpreter (TicketService) of jira-ticket-creator.            *)
(*                                                                         *)
(* Strings are sequences of one-character strings, so that the regular     *)
(* expressions, JSON.parse and String.prototype.trim of the source can be  *)
(* computed character by character.  The empty sequence stands for both    *)
(* the empty string and an absent optional string where the source only    *)
(* tests the value with !x or x || y, which do not tell the two apart.     *)
(***************************************************************************)
EXTENDS Integers, Sequences, FiniteSets, TLC

(***************************************************************************)
(* Characters                                                              *)
(***************************************************************************)
QUOTE == "\""
BSLASH == "\\"
NL == "\n"
CR == "\r"
TAB == "\t"
SP == " "
\* U+0060, which a TLA+ string cannot hold, is written as a token
TICK == "tick"

\* the characters that /\s/ and trim() remove, among those of the model
WS == {SP, NL, CR, TAB}

\* characters below U+0020, which JSON.parse rejects inside a string
CtrlChars == {NL, CR, TAB}

Digits == {"0", "1", "2", "3", "4", "5", "6", "7", "8", "9"}

UpperChars == {"A", "B", "C", "D", "E", "F", "G", "H", "I", "J", "K", "L", "M",
               "N", "O", "P", "Q", "R", "S", "T", "U", "V", "W", "X", "Y", "Z"}

HexChars == Digits \cup {"a", "b", "c", "d", "e", "f", "A", "B", "C", "D", "E", "F"}

\* s[i..j], empty when j < i
Sub(s, i, j) == IF j < i THEN <<>> ELSE SubSeq(s, i, j)

\* does the literal pat occur in s at position i
At(s, i, pat) ==
  /\ i >= 1
  /\ i + Len(pat) - 1 <= Len(s)
  /\ \A k \in 1..Len(pat) : s[i + k - 1] = pat[k]

\* first position >= i that holds no whitespace (Len(s)+1 when none)
RECURSIVE SkipWS(_, _)
SkipWS(s, i) ==
  IF i <= Len(s) /\ s[i] \in WS THEN SkipWS(s, i + 1) ELSE i

\* last position <= i that holds no whitespace (0 when none)
RECURSIVE SkipWSBack(_, _)
SkipWSBack(s, i) ==
  IF i >= 1 /\ s[i] \in WS THEN SkipWSBack(s, i - 1) ELSE i

\* String.prototype.trim
Trim(s) == Sub(s, SkipWS(s, 1), SkipWSBack(s, Len(s)))

(***************************************************************************)
(* JavaScript values.  Every value is a record of the same shape so that   *)
(* any two values can be compared:                                         *)
(*   t: the type tag, s: the characters of a string or the lexeme of a     *)
(*   number, a: the elements of an array, o: the members of an object in   *)
(*   source order, each [k |-> key, v |-> value].                          *)
(***************************************************************************)
Undef == [t |-> "undefined", s |-> <<>>, a |-> <<>>, o |-> <<>>]
Null == [t |-> "null", s |-> <<>>, a |-> <<>>, o |-> <<>>]
JTrue == [t |-> "true", s |-> <<>>, a |-> <<>>, o |-> <<>>]
JFalse == [t |-> "false", s |-> <<>>, a |-> <<>>, o |-> <<>>]
Str(s) == [t |-> "string", s |-> s, a |-> <<>>, o |-> <<>>]
Num(lex) == [t |-> "number", s |-> lex, a |-> <<>>, o |-> <<>>]
Arr(a) == [t |-> "array", s |-> <<>>, a |-> a, o |-> <<>>]
Obj(o) == [t |-> "object", s |-> <<>>, a |-> <<>>, o |-> o]

\* the mantissa digits of a number lexeme (up to an exponent marker)
RECURSIVE MantissaNonZero(_, _)
MantissaNonZero(lex, i) ==
  IF i > Len(lex) \/ lex[i] \in {"e", "E"} THEN FALSE
  ELSE IF lex[i] \in Digits \ {"0"} THEN TRUE
  ELSE MantissaNonZero(lex, i + 1)

\* ToBoolean: what !!v, v || w and v ? a : b test
Truthy(v) ==
  CASE v.t \in {"undefined", "null", "false"} -> FALSE
    [] v.t = "string" -> v.s # <<>>
    [] v.t = "number" -> MantissaNonZero(v.s, 1)
    [] OTHER -> TRUE

(***************************************************************************)
(* JSON.parse (ECMA-404), by recursive descent over positions.  A parse    *)
(* result is [ok, v, p]: success, the value, the position after it.        *)
(***************************************************************************)
PFail == [ok |-> FALSE, v |-> Undef, p |-> 0]
POk(v, p) == [ok |-> TRUE, v |-> v, p |-> p]

\* the character an escape \c stands for (backspace is the token "bs");
\* \uXXXX is decoded to one code unit whose identity is not modelled
EscapeOf(c) ==
  CASE c = "n" -> NL
    [] c = "r" -> CR
    [] c = "t" -> TAB
    [] c = "b" -> "bs"
    [] c = "f" -> "\f"
    [] OTHER -> c

SimpleEscapes == {QUOTE, BSLASH, "/", "n", "r", "t", "b", "f"}

RECURSIVE ParseStringBody(_, _, _)
ParseStringBody(s, i, acc) ==
  IF i > Len(s) THEN PFail
  ELSE IF s[i] = QUOTE THEN POk(Str(acc), i + 1)
  ELSE IF s[i] = BSLASH THEN
    IF i + 1 > Len(s) THEN PFail
    ELSE IF s[i + 1] \in SimpleEscapes
      THEN ParseStringBody(s, i + 2, Append(acc, EscapeOf(s[i + 1])))
    ELSE IF s[i + 1] = "u" /\ i + 5 <= Len(s)
            /\ \A k \in (i + 2)..(i + 5) : s[k] \in HexChars
      THEN ParseStringBody(s, i + 6, Append(acc, "\\u"))
    ELSE PFail
  ELSE IF s[i] \in CtrlChars THEN PFail
  ELSE ParseStringBody(s, i + 1, Append(acc, s[i]))

ParseString(s, i) ==
  IF i <= Len(s) /\ s[i] = QUOTE THEN ParseStringBody(s, i + 1, <<>>) ELSE PFail

RECURSIVE SkipDigits(_, _)
SkipDigits(s, i) ==
  IF i <= Len(s) /\ s[i] \in Digits THEN SkipDigits(s, i + 1) ELSE i

\* -? (0 | [1-9][0-9]*) (\.[0-9]+)? ([eE][+-]?[0-9]+)?
ParseNumber(s, i) ==
  LET i1 == IF i <= Len(s) /\ s[i] = "-" THEN i + 1 ELSE i
      i2 == IF i1 <= Len(s) /\ s[i1] = "0" THEN i1 + 1 ELSE SkipDigits(s, i1)
      f1 == IF i2 <= Len(s) /\ s[i2] = "." THEN SkipDigits(s, i2 + 1) ELSE i2
      fracBad == i2 <= Len(s) /\ s[i2] = "." /\ f1 = i2 + 1
      e0 == IF f1 <= Len(s) /\ s[f1] \in {"e", "E"} THEN f1 + 1 ELSE f1
      e1 == IF e0 > f1 /\ e0 <= Len(s) /\ s[e0] \in {"+", "-"} THEN e0 + 1 ELSE e0
      e2 == IF e0 > f1 THEN SkipDigits(s, e1) ELSE f1
      expBad == e0 > f1 /\ e2 = e1
  IN IF i2 = i1 \/ fracBad \/ expBad THEN PFail
     ELSE POk(Num(Sub(s, i, e2 - 1)), e2)

RECURSIVE ParseValue(_, _), ParseElements(_, _, _), ParseMembers(_, _, _)

\* after '[' ws, or after ',' ws: one value, then ',' or ']'
ParseElements(s, i, acc) ==
  LET r == ParseValue(s, i)
      j == SkipWS(s, r.p)
  IN IF ~r.ok \/ j > Len(s) THEN PFail
     ELSE IF s[j] = "]" THEN POk(Arr(Append(acc, r.v)), j + 1)
     ELSE IF s[j] = "," THEN ParseElements(s, SkipWS(s, j + 1), Append(acc, r.v))
     ELSE PFail

\* after '{' ws, or after ',' ws: string ws ':' ws value ws, then ',' or '}'
ParseMembers(s, i, acc) ==
  LET k == ParseString(s, i)
      c == SkipWS(s, k.p)
      r == ParseValue(s, SkipWS(s, c + 1))
      j == SkipWS(s, r.p)
      m == Append(acc, [k |-> k.v.s, v |-> r.v])
  IN IF ~k.ok \/ c > Len(s) THEN PFail
     ELSE IF s[c] # ":" THEN PFail
     ELSE IF ~r.ok \/ j > Len(s) THEN PFail
     ELSE IF s[j] = "}" THEN POk(Obj(m), j + 1)
     ELSE IF s[j] = "," THEN ParseMembers(s, SkipWS(s, j + 1), m)
     ELSE PFail

ParseValue(s, i) ==
  IF i > Len(s) THEN PFail
  ELSE IF s[i] = QUOTE THEN ParseString(s, i)
  ELSE IF s[i] = "{" THEN
    LET j == SkipWS(s, i + 1)
    IN IF j <= Len(s) /\ s[j] = "}" THEN POk(Obj(<<>>), j + 1)
       ELSE ParseMembers(s, j, <<>>)
  ELSE IF s[i] = "[" THEN
    LET j == SkipWS(s, i + 1)
    IN IF j <= Len(s) /\ s[j] = "]" THEN POk(Arr(<<>>), j + 1)
       ELSE ParseElements(s, j, <<>>)
  ELSE IF At(s, i, <<"t", "r", "u", "e">>) THEN POk(JTrue, i + 4)
  ELSE IF At(s, i, <<"f", "a", "l", "s", "e">>) THEN POk(JFalse, i + 5)
  ELSE IF At(s, i, <<"n", "u", "l", "l">>) THEN POk(Null, i + 4)
  ELSE IF s[i] = "-" \/ s[i] \in Digits THEN ParseNumber(s, i)
  ELSE PFail

\* JSON.parse(str): [ok |-> FALSE, ...] stands for the SyntaxError it throws
JSONparse(str) ==
  LET r == ParseValue(str, SkipWS(str, 1))
  IN IF r.ok /\ SkipWS(str, r.p) = Len(str) + 1 THEN r ELSE PFail

(***************************************************************************)
(* TicketService: extraction of the candidate block                        *)
(***************************************************************************)
FENCE == <<TICK, TICK, TICK>>
JSONWORD == <<"j", "s", "o", "n">>

NoMatch == [found |-> FALSE, m0 |-> <<>>, m1 |-> <<>>]

\* smallest position >= i where pat occurs, 0 when there is none
FirstAt(s, pat, i) ==
  IF \E j \in i..Len(s) : At(s, j, pat)
  THEN CHOOSE j \in i..Len(s) :
         At(s, j, pat) /\ \A k \in i..(j - 1) : ~At(s, k, pat)
  ELSE 0

\* first position >= i that holds a character of set, Len(s)+1 when none
FirstIn(s, set, i) ==
  IF \E j \in i..Len(s) : s[j] \in set
  THEN CHOOSE j \in i..Len(s) :
         s[j] \in set /\ \A k \in i..(j - 1) : s[k] \notin set
  ELSE Len(s) + 1

\* largest position <= i that holds c, 0 when there is none
LastChar(s, c, i) ==
  IF \E j \in 1..i : s[j] = c
  THEN CHOOSE j \in 1..i : s[j] = c /\ \A k \in (j + 1)..i : s[k] # c
  ELSE 0

\* the lazy group ([\s\S]*?) followed by \s*```: the smallest end e >= p of
\* the group such that whitespace and then a fence follow; 0 when none
LazyFenceEnd(s, p) ==
  LET Closes(e) == At(s, SkipWS(s, e), FENCE)
  IN IF \E e \in p..(Len(s) + 1) : Closes(e)
     THEN CHOOSE e \in p..(Len(s) + 1) :
            Closes(e) /\ \A k \in p..(e - 1) : ~Closes(k)
     ELSE 0

\* /```(?:json)?\s*([\s\S]*?)\s*```/ tried at the fence at position i, with
\* the regex engine's priorities: "json" is taken when present before it is
\* given up, \s* takes the longest run of whitespace before shorter ones
FenceMatchAt(s, i) ==
  LET afterWord == IF At(s, i + 3, JSONWORD) THEN <<i + 7, i + 3>> ELSE <<i + 3>>
      \* the starts of the group, each with the end the lazy group finds
      ends == [n \in 1..Len(afterWord) |->
                 [p \in afterWord[n]..SkipWS(s, afterWord[n]) |-> LazyFenceEnd(s, p)]]
      Starts(n) == {p \in DOMAIN ends[n] : ends[n][p] # 0}
      usable == {n \in 1..Len(afterWord) : Starts(n) # {}}
  IN IF usable = {} THEN NoMatch
     ELSE LET n == CHOOSE x \in usable : \A y \in usable : x <= y
              p == CHOOSE x \in Starts(n) : \A y \in Starts(n) : x >= y
              e == ends[n][p]
          IN [found |-> TRUE,
              m0 |-> Sub(s, i, SkipWS(s, e) + 2),
              m1 |-> Sub(s, p, e - 1)]

\* result.content.match(/```(?:json)?\s*([\s\S]*?)\s*```/): the leftmost
\* position where the pattern matches
RECURSIVE FenceMatchFrom(_, _)
FenceMatchFrom(s, i) ==
  LET f == FirstAt(s, FENCE, i)
      m == FenceMatchAt(s, f)
  IN IF f = 0 THEN NoMatch
     ELSE IF m.found THEN m
     ELSE FenceMatchFrom(s, f + 1)

FenceMatch(s) == FenceMatchFrom(s, 1)

\* result.content.match(/(\{[\s\S]*\})/): [\s\S]* is greedy, so the match
\* runs from the first "{" to the last "}" of the text
BraceMatch(s) ==
  LET i == FirstAt(s, <<"{">>, 1)
      j == LastChar(s, "}", Len(s))
  IN IF i = 0 \/ j < i THEN NoMatch
     ELSE [found |-> TRUE, m0 |-> Sub(s, i, j), m1 |-> Sub(s, i, j)]

\* jsonMatch = fenced || braces;  jsonStr = jsonMatch[1] || jsonMatch[0]
ExtractJsonStr(s) ==
  LET fenced == FenceMatch(s)
      m == IF fenced.found THEN fenced ELSE BraceMatch(s)
  IN [found |-> m.found, str |-> IF m.m1 # <<>> THEN m.m1 ELSE m.m0]

(***************************************************************************)
(* TicketService.safeParseJSON                                             *)
(***************************************************************************)
\* end of the match of /"((?:[^"\\]|\\.)*)"/s that starts at the quote
\* before position j: the position of the closing quote, 0 when none
RECURSIVE StringLiteralEnd(_, _)
StringLiteralEnd(s, j) ==
  IF j > Len(s) THEN 0
  ELSE IF s[j] = QUOTE THEN j
  ELSE IF s[j] = BSLASH THEN
    IF j + 1 > Len(s) THEN 0 ELSE StringLiteralEnd(s, j + 2)
  ELSE StringLiteralEnd(s, j + 1)

\* str.replace(/c/g, rep) for a single character c
RECURSIVE ReplaceChar(_, _, _)
ReplaceChar(s, c, rep) ==
  IF s = <<>> THEN <<>>
  ELSE (IF Head(s) = c THEN rep ELSE <<Head(s)>>) \o ReplaceChar(Tail(s), c, rep)

\* EscapeControls without the replacement of carriage returns
EscapeControlsNoCR(inner) ==
  ReplaceChar(ReplaceChar(inner, NL, <<BSLASH, "n">>), TAB, <<BSLASH, "t">>)

EscapeControls(inner) ==
  ReplaceChar(ReplaceChar(ReplaceChar(inner, NL, <<BSLASH, "n">>),
                          CR, <<BSLASH, "r">>),
              TAB, <<BSLASH, "t">>)

\* str.replace(/"((?:[^"\\]|\\.)*)"/gs, (_m, inner) => '"' + ... + '"')
\* the text from position i on: what precedes the next quote is copied, a
\* quote that opens a match is replaced with the match, any other is copied
RECURSIVE RepairFrom(_, _)
RepairFrom(s, i) ==
  LET q == FirstIn(s, {QUOTE}, i)
      j == StringLiteralEnd(s, q + 1)
  IN IF q > Len(s) THEN Sub(s, i, Len(s))
     ELSE IF j # 0
       THEN Sub(s, i, q - 1) \o <<QUOTE>> \o EscapeControls(Sub(s, q + 1, j - 1))
            \o <<QUOTE>> \o RepairFrom(s, j + 1)
     ELSE Sub(s, i, q) \o RepairFrom(s, q + 1)

Repair(str) == RepairFrom(str, 1)

\* [ok |-> FALSE] stands for the SyntaxError of the second JSON.parse
safeParseJSON(str) ==
  LET direct == JSONparse(str)
  IN IF direct.ok THEN direct ELSE JSONparse(Repair(str))

(***************************************************************************)
(* TicketService: field validation, title and content post-processing      *)
(***************************************************************************)
Task == <<"T", "a", "s", "k">>
Story == <<"S", "t", "o", "r", "y">>
Bug == <<"B", "u", "g">>
Spike == <<"S", "p", "i", "k", "e">>
Epic == <<"E", "p", "i", "c">>
Low == <<"L", "o", "w">>
Medium == <<"M", "e", "d", "i", "u", "m">>
High == <<"H", "i", "g", "h">>
Critical == <<"C", "r", "i", "t", "i", "c", "a", "l">>

VALID_TYPES == {Task, Story, Bug, Spike, Epic}
VALID_PRIORITIES == {Low, Medium, High, Critical}

\* .slice(0, 10) of the detected labels
MaxDetectedLabels == 10
\* .slice(0, 100) of the title taken from the first line
MaxTitleLen == 100

\* validateType without the test of membership in VALID_TYPES
validateTypeAnyString(type) ==
  IF type.t = "string" THEN type.s ELSE <<>>

\* the empty sequence stands for the null that validateType returns
validateType(type) ==
  IF type.t = "string" /\ type.s \in VALID_TYPES THEN type.s ELSE <<>>

validatePriority(priority) ==
  IF priority.t = "string" /\ priority.s \in VALID_PRIORITIES THEN priority.s ELSE <<>>

\* parsed.key for a value that is neither null nor undefined: the last member
\* of that name of an object; the five keys read are no property of an array,
\* a string, a number or a boolean
Get(v, key) ==
  LET hits == {n \in 1..Len(v.o) : v.o[n].k = key}
  IN IF v.t # "object" \/ hits = {} THEN Undef
     ELSE v.o[CHOOSE n \in hits : \A m \in hits : n >= m].v

RECURSIVE StringsOf(_)
StringsOf(a) ==
  IF a = <<>> THEN <<>>
  ELSE (IF Head(a).t = "string" THEN <<Head(a).s>> ELSE <<>>) \o StringsOf(Tail(a))

\* detectedLabels without .slice(0, 10)
DetectLabelsUncapped(l) == IF l.t = "array" THEN StringsOf(l.a) ELSE <<>>

\* Array.isArray(l) ? l.filter(typeof string).slice(0, 10) : []
DetectLabels(l) ==
  IF l.t = "array"
  THEN LET f == StringsOf(l.a)
       IN Sub(f, 1, IF Len(f) < MaxDetectedLabels THEN Len(f) ELSE MaxDetectedLabels)
  ELSE <<>>

\* the line terminators of a JavaScript regular expression, among the
\* characters of the model: . does not match them, ^ and $ with the m flag
\* match next to them
LineTerms == {NL, CR}

RECURSIVE SkipHashes(_, _)
SkipHashes(s, i) ==
  IF i <= Len(s) /\ s[i] = "#" THEN SkipHashes(s, i + 1) ELSE i

\* "##" \s+ X+ tried at position i, X being every character outside stop:
\* \s+ takes the longest run of whitespace that leaves X+ one character.
\* The result is the position where X+ starts, 0 when there is no match.
HeadingTextStart(s, i, stop) ==
  LET qs == {q \in (i + 3)..SkipWS(s, i + 2) : q <= Len(s) /\ s[q] \notin stop}
  IN IF ~At(s, i, <<"#", "#">>) \/ qs = {} THEN 0
     ELSE CHOOSE q \in qs : \A r \in qs : q >= r

\* content.match(/^##\s+(.+)$/m): the first line start where it matches;
\* the result is h2Match[1], <<>> with found FALSE when there is no match
H2Match(s) ==
  LET Hit(i) == (i = 1 \/ s[i - 1] \in LineTerms)
                /\ HeadingTextStart(s, i, LineTerms) # 0
  IN IF \E i \in 1..Len(s) : Hit(i)
     THEN LET i == CHOOSE j \in 1..Len(s) : Hit(j) /\ \A k \in 1..(j - 1) : ~Hit(k)
              q == HeadingTextStart(s, i, LineTerms)
          IN [found |-> TRUE, text |-> Sub(s, q, FirstIn(s, LineTerms, q) - 1)]
     ELSE [found |-> FALSE, text |-> <<>>]

extractTitleFromContent(content) ==
  LET h2Match == H2Match(content)
      firstLine == Sub(content, 1, FirstIn(content, {NL}, 1) - 1)
      hashes == SkipHashes(firstLine, 1)
      stripped == IF hashes > 1
                  THEN Sub(firstLine, SkipWS(firstLine, hashes), Len(firstLine))
                  ELSE firstLine
      t == Trim(stripped)
  IN IF h2Match.found THEN Trim(h2Match.text)
     ELSE Sub(t, 1, IF Len(t) < MaxTitleLen THEN Len(t) ELSE MaxTitleLen)

\* stripLeadingTitle without the replacement
stripLeadingTitleKeepsHeading(content) == Trim(content)

\* content.replace(/^##\s+[^\n]+\n?\n?/, "").trim()
stripLeadingTitle(content) ==
  LET q == HeadingTextStart(content, 1, {NL})
      e == FirstIn(content, {NL}, q)
      e1 == IF e <= Len(content) THEN e + 1 ELSE e
      e2 == IF e1 > e /\ e1 <= Len(content) /\ content[e1] = NL THEN e1 + 1 ELSE e1
  IN IF q = 0 THEN Trim(content)
     ELSE Trim(Sub(content, e2, Len(content)))

MARKDOWN == <<"m", "a", "r", "k", "d", "o", "w", "n">>
MD == <<"m", "d">>

\* content.replace(/^```(?:markdown|md)?\s*\n?([\s\S]*?)\n?\s*```$/s, '$1'):
\* the text must start with a fence and end with one; after the optional
\* word, \s*\n? takes the whole run of whitespace, the lazy group ends
\* where only whitespace and the final fence remain
StripCodeFence(content) ==
  LET last == Len(content) - 2
      words == (IF At(content, 4, MARKDOWN) THEN <<4 + Len(MARKDOWN)>> ELSE <<>>)
               \o (IF At(content, 4, MD) THEN <<4 + Len(MD)>> ELSE <<>>)
               \o <<4>>
      Ok(a) == SkipWS(content, a) <= last
      usable == {n \in 1..Len(words) : Ok(words[n])}
  IN IF ~At(content, 1, FENCE) \/ ~At(content, last, FENCE) \/ usable = {}
     THEN content
     ELSE LET n == CHOOSE x \in usable : \A y \in usable : x <= y
              p == SkipWS(content, words[n])
              e == SkipWSBack(content, last - 1) + 1
          IN Sub(content, p, (IF e < p THEN p ELSE e) - 1)

cleanLLMOutput(rawText) ==
  stripLeadingTitle(Trim(StripCodeFence(Trim(rawText))))

(***************************************************************************)
(* TicketService.parseStructuredResponse and generateTicket                *)
(*                                                                         *)
(* A TicketInput is [title, type, priority, labels]; a GeneratedTicket is  *)
(* [content, title, type, priority, labels, ai], ai being the aiSuggested  *)
(* member: present tells whether the record has it.  generatedAt and model *)
(* are copied from the clock and from the reply and are not modelled.      *)
(***************************************************************************)
NoAi == [present |-> FALSE, type |-> FALSE, priority |-> FALSE, labels |-> FALSE]

NoTicket ==
  [content |-> <<>>, title |-> Undef, type |-> <<>>, priority |-> <<>>,
   labels |-> <<>>, ai |-> NoAi]

\* how a block of code ends: it returns a ticket or an exception leaves it
Returned(t) == [threw |-> FALSE, ticket |-> t]
Thrown == [threw |-> TRUE, ticket |-> NoTicket]

\* a || b on strings, the empty sequence being the falsy one
Or2(a, b) == IF a # <<>> THEN a ELSE b

\* the catch branch with the defaults in place of the fields of the input
FallbackTicketDefaultsOnly(content, input) ==
  [content |-> Trim(content),
   title |-> Str(Or2(input.title, extractTitleFromContent(content))),
   type |-> Task,
   priority |-> Medium,
   labels |-> <<>>,
   ai |-> NoAi]

\* the catch branch of parseStructuredResponse
FallbackTicket(content, input) ==
  [content |-> Trim(content),
   title |-> Str(Or2(input.title, extractTitleFromContent(content))),
   type |-> Or2(input.type, Task),
   priority |-> Or2(input.priority, Medium),
   labels |-> input.labels,
   ai |-> NoAi]

\* the return statement of the try block, for a parsed value whose members
\* can be read and whose content, when truthy, is a string
ParsedTicket(parsed, content, input) ==
  LET detectedType == validateType(Get(parsed, <<"t", "y", "p", "e">>))
      detectedPriority ==
        validatePriority(Get(parsed, <<"p", "r", "i", "o", "r", "i", "t", "y">>))
      detectedLabels == DetectLabels(Get(parsed, <<"l", "a", "b", "e", "l", "s">>))
      pContent == Get(parsed, <<"c", "o", "n", "t", "e", "n", "t">>)
      pTitle == Get(parsed, <<"t", "i", "t", "l", "e">>)
      body == IF Truthy(pContent) THEN pContent.s ELSE content
  IN [content |-> Trim(body),
      title |-> IF Truthy(pTitle) THEN pTitle
                ELSE Str(Or2(input.title, extractTitleFromContent(body))),
      type |-> Or2(detectedType, Or2(input.type, Task)),
      priority |-> Or2(detectedPriority, Or2(input.priority, Medium)),
      labels |-> IF Len(detectedLabels) > 0 THEN detectedLabels ELSE input.labels,
      ai |-> [present |-> TRUE,
              type |-> input.type = <<>> /\ detectedType # <<>>,
              priority |-> input.priority = <<>> /\ detectedPriority # <<>>,
              labels |-> Len(input.labels) = 0 /\ Len(detectedLabels) > 0]]

\* the try block, given jsonMatch, the result of the two matches, and parsed,
\* the result of safeParseJSON(jsonStr): it throws when no candidate is found
\* ("No JSON found in response"), when both parses fail (SyntaxError), when a
\* member of null is read or when .trim is called on a truthy content that
\* is no string (TypeError)
TryBlock(jsonMatch, parsed, content, input) ==
  LET pContent == Get(parsed.v, <<"c", "o", "n", "t", "e", "n", "t">>)
  IN IF ~jsonMatch.found THEN Thrown
     ELSE IF ~parsed.ok THEN Thrown
     ELSE IF parsed.v.t = "null" THEN Thrown
     ELSE IF Truthy(pContent) /\ pContent.t # "string" THEN Thrown
     ELSE Returned(ParsedTicket(parsed.v, content, input))

\* parseStructuredResponse without the catch branch
parseStructuredResponseNoCatch(jsonMatch, parsed, content, input) ==
  TryBlock(jsonMatch, parsed, content, input)

\* try { ... } catch (err) { ... }
parseStructuredResponse(jsonMatch, parsed, content, input) ==
  LET try == TryBlock(jsonMatch, parsed, content, input)
  IN IF try.threw THEN Returned(FallbackTicket(content, input)) ELSE try

needsAutoDetect(input) ==
  input.type = <<>> \/ input.priority = <<>> \/ Len(input.labels) = 0

\* the part of generateTicket after provider.complete has returned content;
\* structured is how the call of parseStructuredResponse ended
generateTicket(structured, content, input) ==
  IF needsAutoDetect(input)
  THEN IF structured.threw THEN Thrown
       ELSE Returned([structured.ticket EXCEPT !.content = cleanLLMOutput(@)])
  ELSE Returned([content |-> cleanLLMOutput(content),
                 title |-> Str(Or2(input.title, extractTitleFromContent(content))),
                 type |-> input.type,
                 priority |-> input.priority,
                 labels |-> input.labels,
                 ai |-> NoAi])

(***************************************************************************)
(* Replies of the backend.  A reply is described by a record               *)
(*   kind   "block": an object with the five members asked for by the      *)
(*          prompt; "primitive": a JSON text that is no object; "garbage": *)
(*          a candidate that is no JSON text; "prose": no fence, no brace  *)
(*   f      the members of the block (Undef when the member is left out)   *)
(*   wrap   what surrounds the block                                       *)
(*   lit    control characters inside strings are written literally        *)
(*   pretty members are written on lines of their own                      *)
(*   text   the reply when it is no block                                  *)
(*   head   for prose, the leading heading line, <<>> when there is none   *)
(*   body   for prose, the text below the leading heading                  *)
(***************************************************************************)
kTitle == <<"t", "i", "t", "l", "e">>
kType == <<"t", "y", "p", "e">>
kPriority == <<"p", "r", "i", "o", "r", "i", "t", "y">>
kLabels == <<"l", "a", "b", "e", "l", "s">>
kContent == <<"c", "o", "n", "t", "e", "n", "t">>

RECURSIVE SerChars(_, _)
SerChars(s, lit) ==
  IF s = <<>> THEN <<>>
  ELSE LET c == Head(s)
           e == CASE c = QUOTE -> <<BSLASH, QUOTE>>
                  [] c = BSLASH -> <<BSLASH, BSLASH>>
                  [] c = NL /\ ~lit -> <<BSLASH, "n">>
                  [] c = CR /\ ~lit -> <<BSLASH, "r">>
                  [] c = TAB /\ ~lit -> <<BSLASH, "t">>
                  [] OTHER -> <<c>>
       IN e \o SerChars(Tail(s), lit)

RECURSIVE SerValue(_, _, _), SerElements(_, _, _), SerMembers(_, _, _)

SerElements(a, lit, pretty) ==
  IF a = <<>> THEN <<>>
  ELSE SerValue(Head(a), lit, pretty)
       \o (IF Len(a) > 1 THEN <<",">> ELSE <<>>)
       \o SerElements(Tail(a), lit, pretty)

SerMembers(o, lit, pretty) ==
  IF o = <<>> THEN <<>>
  ELSE (IF pretty THEN <<NL, SP, SP>> ELSE <<>>)
       \o <<QUOTE>> \o SerChars(Head(o).k, lit) \o <<QUOTE, ":">>
       \o (IF pretty THEN <<SP>> ELSE <<>>)
       \o SerValue(Head(o).v, lit, pretty)
       \o (IF Len(o) > 1 THEN <<",">> ELSE IF pretty THEN <<NL>> ELSE <<>>)
       \o SerMembers(Tail(o), lit, pretty)

SerValue(v, lit, pretty) ==
  CASE v.t = "string" -> <<QUOTE>> \o SerChars(v.s, lit) \o <<QUOTE>>
    [] v.t = "number" -> v.s
    [] v.t = "null" -> <<"n", "u", "l", "l">>
    [] v.t = "true" -> <<"t", "r", "u", "e">>
    [] v.t = "false" -> <<"f", "a", "l", "s", "e">>
    [] v.t = "array" -> <<"[">> \o SerElements(v.a, lit, pretty) \o <<"]">>
    [] v.t = "object" -> <<"{">> \o SerMembers(v.o, lit, pretty) \o <<"}">>

Member(k, v) == IF v = Undef THEN <<>> ELSE <<[k |-> k, v |-> v]>>

BlockObject(f) ==
  Obj(Member(kTitle, f.title) \o Member(kType, f.type)
      \o Member(kPriority, f.priority) \o Member(kLabels, f.labels)
      \o Member(kContent, f.content))

Wraps == {"fenced-json", "fenced-bare", "fenced-prose", "bare", "bare-prose",
          "bare-then-brace"}

Wrapped(wrap, b) ==
  CASE wrap = "fenced-json" -> FENCE \o JSONWORD \o <<NL>> \o b \o <<NL>> \o FENCE
    [] wrap = "fenced-bare" -> FENCE \o <<NL>> \o b \o <<NL>> \o FENCE
    [] wrap = "fenced-prose" ->
         <<"O", "k", ":", NL>> \o FENCE \o JSONWORD \o <<SP, NL>> \o b
         \o <<NL, SP>> \o FENCE \o <<NL, "e", "n", "d">>
    [] wrap = "bare" -> b
    [] wrap = "bare-prose" -> <<"O", "k", ":", SP>> \o b \o <<SP, "e", "n", "d">>
    [] wrap = "bare-then-brace" -> b \o <<SP, "s", "e", "e", SP, "{", "x", "}">>

sFix == <<"F", "i", "x">>
sMine == <<"M", "i", "n", "e">>
sApi == <<"a", "p", "i">>
sUi == <<"u", "i">>
sDb == <<"d", "b">>

cHeadFix == <<"#", "#", SP>> \o sFix \o <<NL, NL, "#", "#", "#", SP, "b">>
cHeadOld == <<"#", "#", SP, "O", "l", "d", NL, "b">>
cHeadTwice == <<"#", "#", SP>> \o sFix \o <<NL, "#", "#", SP>> \o sFix \o <<NL, "b">>
cCtl == <<"a", QUOTE, "b", BSLASH, NL, "c", TAB, CR, NL, "d">>
cTicks == <<"a", SP>> \o FENCE \o <<"x">> \o FENCE \o <<SP, "b">>
cPlain == <<"b", "o", "d", "y">>

TwelveLabels ==
  Arr([n \in 1..12 |-> Str(<<"l", CHOOSE d \in Digits : d = ToString(n % 10)>>)])

NoFields ==
  [title |-> Undef, type |-> Undef, priority |-> Undef, labels |-> Undef,
   content |-> Undef]

BaseFields ==
  [title |-> Str(sFix), type |-> Str(Bug), priority |-> Str(High),
   labels |-> Arr(<<Str(sApi)>>), content |-> Str(cHeadFix)]

BlockReply(f, wrap, lit, pretty) ==
  [kind |-> "block", f |-> f, wrap |-> wrap, lit |-> lit, pretty |-> pretty,
   text |-> <<>>, head |-> <<>>, body |-> <<>>]

TextReply(kind, text, head, body) ==
  [kind |-> kind, f |-> NoFields, wrap |-> "none", lit |-> FALSE,
   pretty |-> FALSE, text |-> text, head |-> head, body |-> body]

\* blocks whose metadata members vary
MetadataReplies ==
  {BlockReply([BaseFields EXCEPT !.title = t, !.type = ty, !.priority = p,
                                  !.labels = l],
              "fenced-json", FALSE, FALSE) :
     t \in {Undef, Str(sFix)},
     ty \in {Undef, Str(Bug), Str(<<"b", "u", "g">>), Num(<<"5">>)},
     p \in {Undef, Str(High), Str(<<"U", "r", "g", "e", "n", "t">>)},
     l \in {Undef, Arr(<<>>), Arr(<<Str(sApi)>>),
            Arr(<<Str(<<"A", "P", "I">>), Str(<<>>)>>), TwelveLabels,
            Arr(<<Num(<<"1">>), Str(sDb), Null, Str(sUi)>>), Str(sApi)}}

\* blocks whose content, wrapping and escaping vary
ContentReplies ==
  {BlockReply([BaseFields EXCEPT !.content = c], w, lit, pretty) :
     c \in {Undef, Str(cHeadFix), Str(cHeadOld), Str(cHeadTwice), Str(cCtl),
            Str(cTicks),
            Str(<<>>), Num(<<"7">>), Num(<<"0">>), JFalse, Null},
     w \in Wraps, lit \in BOOLEAN, pretty \in BOOLEAN}

PrimitiveReplies ==
  {TextReply("primitive", Wrapped("fenced-json", SerValue(v, FALSE, FALSE)),
             <<>>, <<>>) :
     v \in {Null, JTrue, Num(<<"5">>), Str(sFix), Arr(<<Num(<<"1">>)>>)}}

GarbageReplies ==
  {TextReply("garbage", t, <<>>, <<>>) :
     t \in {<<"{", SP, "n", "o", SP, "}">>,
            FENCE \o <<SP>> \o FENCE,
            FENCE \o JSONWORD \o <<NL, "{", QUOTE, "a", QUOTE, ":", "}", NL>> \o FENCE,
            <<"x", SP, "{", QUOTE, "t", "y", "p", "e", QUOTE, ":", "1", ",", "}">>}}

\* prose: optional blank space, an optional leading heading, a body
ProseReplies ==
  {TextReply("prose", lead \o h \o b \o trail, h, b) :
     lead \in {<<>>, <<SP, NL>>},
     h \in {<<>>, <<"#", "#", SP, "S", "o", "m", "e", NL, NL>>,
            <<"#", "#", TAB, "A", SP, "b", NL>>},
     b \in {cPlain, <<"#", "#", "#", SP, "C", NL, "x">>,
            <<"#", "#", SP, "B", NL, "y">>, <<"a", SP, "}", SP, "{">>},
     trail \in {<<>>, <<NL, SP>>}}

Replies ==
  MetadataReplies \cup ContentReplies \cup PrimitiveReplies
    \cup GarbageReplies \cup ProseReplies

ReplyText(fx) ==
  IF fx.kind = "block"
  THEN Wrapped(fx.wrap, SerValue(BlockObject(fx.f), fx.lit, fx.pretty))
  ELSE fx.text

\* inputs that pass ticketInputSchema
Inputs ==
  [title : {<<>>, sMine}, type : {<<>>, Story}, priority : {<<>>, Low},
   labels : {<<>>, <<sUi>>}]

\* blocks for safeParseJSON: strings of up to MaxCtlLen characters, control
\* characters, quotes and backslashes among them, as title and as content
MaxCtlLen == 3

CtlAlphabet == {NL, CR, TAB, QUOTE, BSLASH, "a"}

CtlStrings == UNION {[1..n -> CtlAlphabet] : n \in 0..MaxCtlLen}

HasControl(str) == \E n \in 1..Len(str) : str[n] \in CtrlChars

RepairCases ==
  [title : {sFix, <<"a", TAB, BSLASH>>}, content : CtlStrings,
   label : {sApi, <<NL>>}, pretty : BOOLEAN]

RepairObject(c) ==
  Obj(<<[k |-> kTitle, v |-> Str(c.title)],
        [k |-> kLabels, v |-> Arr(<<Str(c.label), Num(<<"1">>)>>)],
        [k |-> kContent, v |-> Str(c.content)]>>)

(***************************************************************************)
(* LLMFactory and the constructors of the providers                        *)
(*                                                                         *)
(* A config is [apiKey, model], with baseUrl and timeout when the caller   *)
(* gives them; "" is an apiKey that is empty or left out,                  *)
(* NoModel a model that is left out.  An adapter is a record on the heap,  *)
(* the sequence of all adapters constructed so far: the identity of an     *)
(* adapter is its position in the heap.                                    *)
(***************************************************************************)
LLM_PROVIDERS == {"claude", "openai", "gemini", "ollama"}

NoModel == "(undefined)"

ModelOr(config, default) ==
  IF config.model \in {NoModel, ""} THEN default ELSE config.model

\* a cache key that tells configs with different credentials apart
cacheKeyWithCredential(name, config) ==
  <<name, ModelOr(config, "default"), config.apiKey>>

\* `${name}:${config.model || 'default'}`
cacheKey(name, config) == <<name, ModelOr(config, "default")>>

\* config.baseUrl || default
BaseUrlOr(config, default) ==
  IF "baseUrl" \in DOMAIN config /\ config.baseUrl \notin {NoModel, ""}
  THEN config.baseUrl ELSE default

\* config.timeout || default
TimeoutOr(config, default) ==
  IF "timeout" \in DOMAIN config /\ config.timeout # 0
  THEN config.timeout ELSE default

Constructed(a) == [threw |-> FALSE, adapter |-> a]
NoAdapter == [name |-> "", model |-> "", apiKey |-> "", baseUrl |-> "", timeout |-> 0]
ConstructorThrows == [threw |-> TRUE, adapter |-> NoAdapter]

\* the constructor of ClaudeProvider without the test of config.apiKey
ClaudeProviderNoKeyCheck(config) ==
  Constructed([name |-> "claude",
               model |-> ModelOr(config, "claude-sonnet-4-20250514"),
               apiKey |-> config.apiKey,
               baseUrl |-> BaseUrlOr(config, "https://api.anthropic.com"),
               timeout |-> TimeoutOr(config, 60000)])

ClaudeProvider(config) ==
  IF config.apiKey = "" THEN ConstructorThrows
  ELSE Constructed([name |-> "claude",
                    model |-> ModelOr(config, "claude-sonnet-4-20250514"),
                    apiKey |-> config.apiKey,
                    baseUrl |-> BaseUrlOr(config, "https://api.anthropic.com"),
                    timeout |-> TimeoutOr(config, 60000)])

OpenAIProvider(config) ==
  IF config.apiKey = "" THEN ConstructorThrows
  ELSE Constructed([name |-> "openai",
                    model |-> ModelOr(config, "gpt-4o"),
                    apiKey |-> config.apiKey,
                    baseUrl |-> BaseUrlOr(config, "https://api.openai.com"),
                    timeout |-> TimeoutOr(config, 60000)])

OllamaProvider(config) ==
  Constructed([name |-> "ollama",
               model |-> ModelOr(config, "llama3"),
               apiKey |-> "",
               baseUrl |-> BaseUrlOr(config, "http://localhost:11434"),
               timeout |-> TimeoutOr(config, 120000)])

createProvider(name, config) ==
  CASE name = "claude" -> ClaudeProvider(config)
    [] name = "openai" -> OpenAIProvider(config)
    [] name = "gemini" -> ConstructorThrows
    [] name = "ollama" -> OllamaProvider(config)
    [] OTHER -> ConstructorThrows

\* number of calls of create, clearCache and complete in a behaviour
MaxCalls == 4

CallNames == LLM_PROVIDERS \cup {"unknown"}
CallConfigs == [apiKey : {"", "k"}, model : {NoModel, "default", "m"}]

EmptyCache == [k \in {} |-> 0]

NoCall ==
  [op |-> "none", name |-> "", config |-> [apiKey |-> "", model |-> NoModel],
   cached |-> FALSE, before |-> EmptyCache, threw |-> FALSE, id |-> 0,
   netBefore |-> 0]

(***************************************************************************)
(* fetchWithTimeout and complete of the three adapters                     *)
(*                                                                         *)
(* The message of an error is a sequence: the words of a message that the  *)
(* code or the transport writes, or the characters of a text that comes    *)
(* from a response body.  A response is [status, body], a body is          *)
(* [readable, text]: reading a body that is not readable rejects.          *)
(***************************************************************************)
Adapters == {"claude", "openai", "ollama"}

\* config.timeout || 60000, and 120000 in OllamaProvider
timeoutMs(provider) == IF provider = "ollama" THEN 120000 ELSE 60000

NoError == [name |-> "", provider |-> "", statusCode |-> -1, message |-> <<>>]

LLMApiError(provider, statusCode, message) ==
  [name |-> "LLMApiError", provider |-> provider, statusCode |-> statusCode,
   message |-> message]

\* an exception that no code of the adapters constructs
RawError(name, message) ==
  [name |-> name, provider |-> "", statusCode |-> -1, message |-> message]

\* error.message.includes(word)
Includes(message, word) == \E i \in 1..Len(message) : message[i] = word

\* what fetchWithTimeout throws when the controller has aborted the request
TimeoutError(provider) ==
  RawError("Error", <<"Request", "timeout", "after",
                      ToString(timeoutMs(provider)), "ms">>)

\* what fetch rejects with when the signal of its request has aborted
AbortError == RawError("AbortError", <<"This", "operation", "was", "aborted">>)

\* fetchWithTimeout without its catch block: the rejection of fetch is thrown
fetchWithTimeoutRethrows(provider, error) == error

\* the catch block of fetchWithTimeout
fetchWithTimeoutCatch(provider, error) ==
  IF error.name = "AbortError" THEN TimeoutError(provider) ELSE error

\* the rejections of fetch that are no abort
TransportFailures ==
  { RawError("TypeError", <<"fetch", "failed">>),
    RawError("FetchError", <<"connect", "ECONNREFUSED", "127.0.0.1:11434">>),
    RawError("FetchError", <<"connect", "ETIMEDOUT", "10.0.0.1:443">>) }

\* the catch block around fetchWithTimeout in complete
OnFetchError(provider, error) ==
  IF Includes(error.message, "timeout")
  THEN LLMApiError(provider, 408, <<"Request", "timed", "out">>)
  ELSE IF provider = "ollama" /\ Includes(error.message, "ECONNREFUSED")
  THEN LLMApiError(provider, 503, <<"Ollama", "is", "not", "running.", "Start",
                                    "it", "with:", "ollama", "serve">>)
  ELSE LLMApiError(provider, 0, <<"Network", "error">>)

kText == <<"t", "e", "x", "t">>
kChoices == <<"c", "h", "o", "i", "c", "e", "s">>
kMessage == <<"m", "e", "s", "s", "a", "g", "e">>
kError == <<"e", "r", "r", "o", "r">>

Nullish(v) == v.t \in {"undefined", "null"}

\* v[0]
Index0(v) ==
  CASE v.t = "array" /\ v.a # <<>> -> v.a[1]
    [] v.t = "string" /\ v.s # <<>> -> Str(<<v.s[1]>>)
    [] OTHER -> Undef

\* v || ''
OrEmpty(v) == IF Truthy(v) THEN v ELSE Str(<<>>)

\* response.json(): rejects when the body cannot be read or is no JSON text
ResponseJson(body) == IF body.readable THEN JSONparse(body.text) ELSE PFail

\* what a rejected response.json() throws
JsonRejection(body) ==
  RawError(IF body.readable THEN "SyntaxError" ELSE "TypeError",
           <<"response.json()">>)

Fulfilled(v) == [state |-> "fulfilled", value |-> v, error |-> NoError]
Rejected(e) == [state |-> "rejected", value |-> Undef, error |-> e]
Pending == [state |-> "pending", value |-> Undef, error |-> NoError]

\* `HTTP ${response.status}`
HttpStatus(status) == <<"HTTP", ToString(status)>>

\* the message of a characters-of-a-body value that is thrown as it is
MessageOf(v) == IF v.t = "string" THEN v.s ELSE <<"(", v.t, ")">>

\* if (!response.ok) of ClaudeProvider and OpenAIProvider
JsonErrorBody(provider, response, json) ==
  LET errorBody == IF json.ok THEN json.v ELSE Obj(<<>>)
      message == Get(Get(errorBody, kError), kMessage)
  IN IF Nullish(errorBody)
     THEN Rejected(RawError("TypeError", <<"Cannot", "read", "properties">>))
     ELSE Rejected(LLMApiError(provider, response.status,
                     IF Truthy(message) THEN MessageOf(message)
                     ELSE HttpStatus(response.status)))

\* if (!response.ok) of OllamaProvider
TextErrorBody(provider, response) ==
  Rejected(LLMApiError(provider, response.status,
             IF response.body.readable THEN response.body.text
             ELSE <<"Unknown", "error">>))

\* complete of ClaudeProvider from a response that is ok on
ClaudeResult(body, json) ==
  LET content == Get(json.v, kContent)
  IN IF ~json.ok THEN Rejected(JsonRejection(body))
     ELSE IF Nullish(json.v) \/ Nullish(content)
     THEN Rejected(RawError("TypeError", <<"Cannot", "read", "properties">>))
     ELSE Fulfilled(OrEmpty(Get(Index0(content), kText)))

\* complete of OpenAIProvider from a response that is ok on
OpenAIResult(body, json) ==
  LET choices == Get(json.v, kChoices)
  IN IF ~json.ok THEN Rejected(JsonRejection(body))
     ELSE IF Nullish(json.v) \/ Nullish(choices)
     THEN Rejected(RawError("TypeError", <<"Cannot", "read", "properties">>))
     ELSE Fulfilled(OrEmpty(Get(Get(Index0(choices), kMessage), kContent)))

\* complete of OllamaProvider from a response that is ok on
OllamaResult(body, json) ==
  IF ~json.ok THEN Rejected(JsonRejection(body))
  ELSE IF Nullish(json.v)
  THEN Rejected(RawError("TypeError", <<"Cannot", "read", "properties">>))
  ELSE Fulfilled(OrEmpty(Get(Get(json.v, kMessage), kContent)))

ResponseOk(response) == response.status >= 200 /\ response.status <= 299

\* complete from the arrival of the response on; json is response.json()
CompleteFromResponse(provider, response, json) ==
  IF ~ResponseOk(response)
  THEN IF provider = "ollama" THEN TextErrorBody(provider, response)
       ELSE JsonErrorBody(provider, response, json)
  ELSE CASE provider = "claude" -> ClaudeResult(response.body, json)
         [] provider = "openai" -> OpenAIResult(response.body, json)
         [] provider = "ollama" -> OllamaResult(response.body, json)

\* the bodies a backend may answer with
ClaudeBody == Obj(Member(kContent, Arr(<<Obj(Member(kText, Str(<<"r">>)))>>)))
OpenAIBody ==
  Obj(Member(kChoices,
        Arr(<<Obj(Member(kMessage, Obj(Member(kContent, Str(<<"r">>)))))>>)))
OllamaBody == Obj(Member(kMessage, Obj(Member(kContent, Str(<<"r">>)))))
ErrorBody == Obj(Member(kError, Obj(Member(kMessage, Str(<<"m">>)))))
OllamaErrorBody == Obj(Member(kError, Str(<<"m">>)))

BodyTexts ==
  { SerValue(v, FALSE, FALSE) :
      v \in {ClaudeBody, OpenAIBody, OllamaBody, ErrorBody, OllamaErrorBody,
             Obj(<<>>), Null} }
  \cup { <<"<", "h", "t", "m", "l", ">">>, <<>> }

Unreadable == [readable |-> FALSE, text |-> <<>>]
Bodies == {[readable |-> TRUE, text |-> t] : t \in BodyTexts} \cup {Unreadable}

Statuses == {200, 201, 400, 408, 429, 500, 503}
Responses == [status : Statuses, body : Bodies]
NoResponse == [status |-> 0, body |-> Unreadable]

\* the operations of TicketService; blank: the description of generateTitle
\* or the ticket of refineTicket is empty or blank
Operations == {"generateTicket", "refineTicket", "regenerateTicket", "generateTitle"}
Invocations == [kind : Operations, provider : Adapters, blank : BOOLEAN]
NoInvocation == [kind |-> "none", provider |-> "", blank |-> FALSE]

\* an operation up to its await of provider.complete or provider.generate:
\* Pending when the call is made
BeforeCall(op) ==
  CASE op.kind = "generateTitle" /\ op.blank -> Fulfilled(Str(<<>>))
    [] op.kind = "refineTicket" /\ op.blank ->
         Rejected(RawError("Error", <<"No", "ticket", "content", "to", "refine">>))
    [] OTHER -> Pending

\* an operation that catches the rejection of complete and returns ''
AfterCallSuppresses(op, completion) ==
  IF completion.state = "rejected" THEN Fulfilled(Str(<<>>))
  ELSE Fulfilled(completion.value)

\* an operation from the end of provider.complete on: no operation catches,
\* so a rejection of complete is the rejection of the operation
AfterCall(op, completion) ==
  IF completion.state = "rejected" THEN completion
  ELSE Fulfilled(completion.value)

(***************************************************************************)
(* The environment: getConfigFromEnv, getAvailableProviders, validateEnv   *)
(*                                                                         *)
(* An environment gives every variable a string, or Unset when the         *)
(* variable is not set (process.env.X is undefined).                       *)
(***************************************************************************)
Unset == NoModel

\* what if (process.env.X) and process.env.X || d test
EnvTruthy(v) == v \notin {Unset, ""}

Envs ==
  [DEFAULT_LLM_PROVIDER : {Unset, "", "claude", "openai", "gemini", "ollama", "gpt5"},
   ANTHROPIC_API_KEY : {Unset, "", "k"},
   OPENAI_API_KEY : {Unset, "", "k"},
   GOOGLE_AI_API_KEY : {Unset, "", "k"},
   OLLAMA_HOST : {Unset, "http://h:11434"},
   CLAUDE_MODEL : {Unset, "m"},
   OPENAI_MODEL : {Unset},
   GEMINI_MODEL : {Unset},
   OLLAMA_MODEL : {Unset}]

NoEnv ==
  [DEFAULT_LLM_PROVIDER |-> Unset, ANTHROPIC_API_KEY |-> Unset,
   OPENAI_API_KEY |-> Unset, GOOGLE_AI_API_KEY |-> Unset, OLLAMA_HOST |-> Unset,
   CLAUDE_MODEL |-> Unset, OPENAI_MODEL |-> Unset, GEMINI_MODEL |-> Unset,
   OLLAMA_MODEL |-> Unset]

\* process.env.X || d
EnvOr(v, d) == IF EnvTruthy(v) THEN v ELSE d

NoAnswer == [op |-> "none", named |-> FALSE, default |-> "", threw |-> FALSE]

\* process.env.X || ''
KeyOr(v) == IF EnvTruthy(v) THEN v ELSE ""

getConfigFromEnv(e, name) ==
  CASE name = "claude" ->
         [apiKey |-> KeyOr(e.ANTHROPIC_API_KEY), model |-> e.CLAUDE_MODEL]
    [] name = "openai" ->
         [apiKey |-> KeyOr(e.OPENAI_API_KEY), model |-> e.OPENAI_MODEL]
    [] name = "gemini" ->
         [apiKey |-> KeyOr(e.GOOGLE_AI_API_KEY), model |-> e.GEMINI_MODEL]
    [] name = "ollama" ->
         [apiKey |-> "",
          baseUrl |-> IF EnvTruthy(e.OLLAMA_HOST) THEN e.OLLAMA_HOST
                      ELSE "http://localhost:11434",
          model |-> e.OLLAMA_MODEL]

If(cond, name) == IF cond THEN <<name>> ELSE <<>>

getAvailableProviders(e) ==
  If(EnvTruthy(e.ANTHROPIC_API_KEY), "claude")
  \o If(EnvTruthy(e.OPENAI_API_KEY), "openai")
  \o If(EnvTruthy(e.GOOGLE_AI_API_KEY), "gemini")
  \o If(EnvTruthy(e.OLLAMA_HOST), "ollama")

PROVIDER_KEY_MAP(name) ==
  CASE name = "claude" -> {"ANTHROPIC_API_KEY"}
    [] name = "openai" -> {"OPENAI_API_KEY"}
    [] name = "gemini" -> {"GOOGLE_AI_API_KEY"}
    [] name = "ollama" -> {}

Passed(warned) == [threw |-> FALSE, message |-> "", warned |-> warned]
Failed(message) == [threw |-> TRUE, message |-> message, warned |-> {}]
NotValidated == [threw |-> FALSE, message |-> "(not called)", warned |-> {}]

\* validateEnv without the test of the keys of the default provider
validateEnvNoKeyCheck(e) ==
  LET defaultProvider == e.DEFAULT_LLM_PROVIDER
      provider == IF EnvTruthy(defaultProvider) THEN defaultProvider ELSE "ollama"
  IN IF EnvTruthy(defaultProvider) /\ defaultProvider \notin LLM_PROVIDERS
     THEN Failed("Invalid DEFAULT_LLM_PROVIDER")
     ELSE Passed({k \in UNION {PROVIDER_KEY_MAP(n) : n \in LLM_PROVIDERS \ {provider}} :
                    ~EnvTruthy(e[k])})

validateEnv(e) ==
  LET defaultProvider == e.DEFAULT_LLM_PROVIDER
      provider == IF EnvTruthy(defaultProvider) THEN defaultProvider ELSE "ollama"
  IN IF EnvTruthy(defaultProvider) /\ defaultProvider \notin LLM_PROVIDERS
     THEN Failed("Invalid DEFAULT_LLM_PROVIDER")
     ELSE IF \E k \in PROVIDER_KEY_MAP(provider) : ~EnvTruthy(e[k])
     THEN Failed("Missing key for default provider")
     ELSE Passed({k \in UNION {PROVIDER_KEY_MAP(n) : n \in LLM_PROVIDERS \ {provider}} :
                    ~EnvTruthy(e[k])})

(***************************************************************************)
(* State                                                                   *)
(***************************************************************************)
VARIABLES
  input,      \* the TicketInput of the generateTicket call
  fx,         \* the description of the reply of the backend
  reply,      \* result.content
  phase,      \* "called" until the operation has returned, then "done"
  jsonMatch,  \* parseStructuredResponse: the candidate found in the reply
  structured, \* how parseStructuredResponse ended
  outcome,    \* how generateTicket ended
  repairCase, \* the block handed to safeParseJSON, as it was built
  jsonStr,    \* the argument of safeParseJSON
  parseOut,   \* the results of the first JSON.parse and of safeParseJSON
  providers,  \* LLMFactory.providers: cache key -> adapter (heap position)
  heap,       \* every adapter constructed so far
  clears,     \* number of clearCache calls so far
  returned,   \* the adapters create has returned: [name, model, id, clears]
  netCalls,   \* number of requests sent to a backend
  calls,      \* number of calls made so far
  last,       \* the last call of the factory and how it ended
  op,         \* the operation of TicketService that was invoked
  timer,      \* the timer of fetchWithTimeout: unset, armed, fired, cleared
  transport,  \* the request: none, inflight, aborted, settled
  response,   \* the response that fetch resolved with
  json,       \* what response.json() gives for the body of the response
  fetches,    \* number of fetch calls of the invocation
  completion, \* how complete of the adapter ended
  settled,    \* how the operation ended
  env,        \* process.env
  available,  \* what getAvailableProviders returned
  validated,  \* how validateEnv ended
  answer      \* what a route or getProvider or getDefault gave

interpVars == <<input, fx, reply, jsonMatch, structured, outcome>>
repairVars == <<repairCase, jsonStr, parseOut>>
factoryVars == <<providers, heap, clears, returned, netCalls, calls, last>>

callVars == <<op, timer, transport, response, json, fetches, completion, settled>>

envVars == <<env, available, validated, answer>>

vars == <<interpVars, repairVars, factoryVars, callVars, envVars, phase>>

NoParse == [directOk |-> FALSE, repaired |-> PFail]

NoCandidate == [found |-> FALSE, str |-> <<>>]

\* parseStructuredResponse has not been called
NotCalled == Returned(NoTicket)

ParseAttempts(str) ==
  [directOk |-> JSONparse(str).ok, repaired |-> safeParseJSON(str)]

InterpIdle ==
  /\ input = [title |-> <<>>, type |-> <<>>, priority |-> <<>>, labels |-> <<>>]
  /\ fx = TextReply("prose", <<>>, <<>>, <<>>)
  /\ reply = <<>>
  /\ jsonMatch = NoCandidate
  /\ structured = NotCalled
  /\ outcome = Thrown

RepairIdle ==
  /\ repairCase = [title |-> <<>>, content |-> <<>>, label |-> <<>>, pretty |-> FALSE]
  /\ jsonStr = <<>>
  /\ parseOut = NoParse

FactoryIdle ==
  /\ providers = EmptyCache
  /\ heap = <<>>
  /\ clears = 0
  /\ returned = {}
  /\ netCalls = 0
  /\ calls = 0
  /\ last = NoCall

CallIdle ==
  /\ op = NoInvocation
  /\ timer = "unset"
  /\ transport = "none"
  /\ response = NoResponse
  /\ json = PFail
  /\ fetches = 0
  /\ completion = Pending
  /\ settled = Pending

EnvIdle ==
  /\ env = NoEnv
  /\ available = <<>>
  /\ validated = NotValidated
  /\ answer = NoAnswer

(***************************************************************************)
(* generateTicket on one reply                                             *)
(***************************************************************************)
InterpInit ==
  /\ input \in Inputs
  /\ fx \in Replies
  /\ reply = ReplyText(fx)
  /\ jsonMatch = NoCandidate
  /\ structured = NotCalled
  /\ outcome = Thrown
  /\ phase = "called"
  /\ RepairIdle
  /\ FactoryIdle
  /\ CallIdle
  /\ EnvIdle

\* generateTicket from the return of provider.complete on: in auto-detect
\* mode parseStructuredResponse looks for the candidate, hands it to
\* safeParseJSON and builds the ticket, whose content is then cleaned
GenerateTicket ==
  /\ phase = "called"
  /\ jsonMatch' = IF needsAutoDetect(input) THEN ExtractJsonStr(reply)
                  ELSE NoCandidate
  /\ jsonStr' = jsonMatch'.str
  /\ parseOut' = IF jsonMatch'.found THEN ParseAttempts(jsonStr') ELSE NoParse
  /\ structured' = IF needsAutoDetect(input)
                   THEN parseStructuredResponse(jsonMatch', parseOut'.repaired,
                                                reply, input)
                   ELSE NotCalled
  /\ outcome' = generateTicket(structured', reply, input)
  /\ phase' = "done"
  /\ UNCHANGED <<input, fx, reply, repairCase, factoryVars, callVars, envVars>>

InterpNext == GenerateTicket

SpecInterp == InterpInit /\ [][InterpNext]_vars

(***************************************************************************)
(* safeParseJSON on one block                                              *)
(***************************************************************************)
RepairInit ==
  /\ repairCase \in RepairCases
  /\ jsonStr = SerValue(RepairObject(repairCase), TRUE, repairCase.pretty)
  /\ parseOut = NoParse
  /\ phase = "called"
  /\ InterpIdle
  /\ FactoryIdle
  /\ CallIdle
  /\ EnvIdle

SafeParse ==
  /\ phase = "called"
  /\ parseOut' = ParseAttempts(jsonStr)
  /\ phase' = "done"
  /\ UNCHANGED <<repairCase, jsonStr, interpVars, factoryVars, callVars, envVars>>

RepairNext == SafeParse

SpecRepair == RepairInit /\ [][RepairNext]_vars

(***************************************************************************)
(* LLMFactory.create, LLMFactory.clearCache and the use of an adapter      *)
(***************************************************************************)
FactoryInit ==
  /\ FactoryIdle
  /\ phase = "called"
  /\ InterpIdle
  /\ RepairIdle
  /\ CallIdle
  /\ EnvIdle

\* create that empties the cache when the constructor throws
CreateDroppingCacheOnThrow(name, config) ==
  LET key == cacheKey(name, config)
      hit == key \in DOMAIN providers
      made == createProvider(name, config)
      id == IF hit THEN providers[key] ELSE Len(heap) + 1
      call == [op |-> "create", name |-> name, config |-> config,
               cached |-> hit, before |-> providers, netBefore |-> netCalls,
               threw |-> ~hit /\ made.threw,
               id |-> IF ~hit /\ made.threw THEN 0 ELSE id]
  IN /\ calls < MaxCalls
     /\ calls' = calls + 1
     /\ last' = call
     /\ IF hit
        THEN UNCHANGED <<providers, heap>>
        ELSE IF made.threw
          THEN providers' = EmptyCache /\ UNCHANGED heap
          ELSE /\ heap' = Append(heap, made.adapter)
               /\ providers' = [k \in DOMAIN providers \cup {key} |->
                                  IF k = key THEN id ELSE providers[k]]
     /\ returned' = IF call.threw THEN returned
                    ELSE returned \cup {[name |-> name, model |-> config.model,
                                         id |-> id, clears |-> clears]}
     /\ UNCHANGED <<clears, netCalls, phase, interpVars, repairVars, callVars, envVars>>

Create(name, config) ==
  LET key == cacheKey(name, config)
      hit == key \in DOMAIN providers
      made == createProvider(name, config)
      id == IF hit THEN providers[key] ELSE Len(heap) + 1
      call == [op |-> "create", name |-> name, config |-> config,
               cached |-> hit, before |-> providers, netBefore |-> netCalls,
               threw |-> ~hit /\ made.threw,
               id |-> IF ~hit /\ made.threw THEN 0 ELSE id]
  IN /\ calls < MaxCalls
     /\ calls' = calls + 1
     /\ last' = call
     /\ IF hit
        THEN UNCHANGED <<providers, heap>>
        ELSE IF made.threw
          THEN UNCHANGED <<providers, heap>>
          ELSE /\ heap' = Append(heap, made.adapter)
               /\ providers' = [k \in DOMAIN providers \cup {key} |->
                                  IF k = key THEN id ELSE providers[k]]
     /\ returned' = IF call.threw THEN returned
                    ELSE returned \cup {[name |-> name, model |-> config.model,
                                         id |-> id, clears |-> clears]}
     /\ UNCHANGED <<clears, netCalls, phase, interpVars, repairVars, callVars, envVars>>

ClearCache ==
  /\ calls < MaxCalls
  /\ calls' = calls + 1
  /\ providers' = EmptyCache
  /\ clears' = clears + 1
  /\ last' = [NoCall EXCEPT !.op = "clearCache", !.before = providers,
                            !.netBefore = netCalls]
  /\ UNCHANGED <<heap, returned, netCalls, phase, interpVars, repairVars, callVars, envVars>>

\* provider.complete on an adapter that a caller holds: one request is sent
Complete(id) ==
  /\ calls < MaxCalls
  /\ calls' = calls + 1
  /\ netCalls' = netCalls + 1
  /\ last' = [NoCall EXCEPT !.op = "complete", !.id = id, !.before = providers,
                            !.netBefore = netCalls]
  /\ UNCHANGED <<providers, heap, clears, returned, phase, interpVars, repairVars, callVars, envVars>>

FactoryNext ==
  \/ \E name \in CallNames, config \in CallConfigs : Create(name, config)
  \/ ClearCache
  \/ \E r \in returned : Complete(r.id)

SpecFactory == FactoryInit /\ [][FactoryNext]_vars

\* the same calls by callers that change the credential, the endpoint and the
\* timeout from one create to the next and leave the model out
ReconfigNames == {"claude", "ollama"}

DefaultConfig == [apiKey |-> "k", model |-> NoModel, baseUrl |-> NoModel, timeout |-> 0]

Reconfigs ==
  {DefaultConfig,
   [DefaultConfig EXCEPT !.apiKey = ""],
   [DefaultConfig EXCEPT !.apiKey = "k2"],
   [DefaultConfig EXCEPT !.baseUrl = "http://h:11434"],
   [DefaultConfig EXCEPT !.timeout = 5],
   [DefaultConfig EXCEPT !.apiKey = "k2", !.baseUrl = "http://h:11434", !.timeout = 5]}

ReconfigureNext ==
  \/ \E name \in ReconfigNames, config \in Reconfigs : Create(name, config)
  \/ ClearCache
  \/ \E r \in returned : Complete(r.id)

SpecReconfigure == FactoryInit /\ [][ReconfigureNext]_vars

(***************************************************************************)
(* One invocation of an operation of TicketService: the operation, the     *)
(* complete of its adapter, fetchWithTimeout and the transport             *)
(***************************************************************************)
CallInit ==
  /\ op \in Invocations
  /\ timer = "unset"
  /\ transport = "none"
  /\ response = NoResponse
  /\ json = PFail
  /\ fetches = 0
  /\ completion = Pending
  /\ settled = Pending
  /\ phase = "called"
  /\ InterpIdle
  /\ RepairIdle
  /\ FactoryIdle
  /\ EnvIdle

\* the operation up to its await: unless it ends before the call, complete
\* calls fetchWithTimeout, which arms the timer and calls fetch
Invoke ==
  /\ phase = "called"
  /\ settled' = BeforeCall(op)
  /\ IF settled'.state = "pending"
     THEN /\ timer' = "armed"
          /\ transport' = "inflight"
          /\ fetches' = fetches + 1
          /\ phase' = "fetching"
     ELSE /\ UNCHANGED <<timer, transport, fetches>>
          /\ phase' = "done"
  /\ UNCHANGED <<op, response, json, completion, interpVars, repairVars, factoryVars, envVars>>

\* the callback of setTimeout: controller.abort()
TimerFires ==
  /\ phase = "fetching"
  /\ timer = "armed"
  /\ timer' = "fired"
  /\ transport' = "aborted"
  /\ UNCHANGED <<op, response, json, fetches, completion, settled, phase,
                 interpVars, repairVars, factoryVars, envVars>>

\* fetch rejects because its signal has aborted; the catch blocks of
\* fetchWithTimeout and of complete run, and the operation rejects
FetchAborted ==
  /\ phase = "fetching"
  /\ transport = "aborted"
  /\ completion' = Rejected(OnFetchError(op.provider,
                              fetchWithTimeoutCatch(op.provider, AbortError)))
  /\ settled' = AfterCall(op, completion')
  /\ phase' = "done"
  /\ UNCHANGED <<op, timer, transport, response, json, fetches,
                 interpVars, repairVars, factoryVars, envVars>>

\* fetch rejects with a failure of the transport before the timer has fired
FetchFails(error) ==
  /\ phase = "fetching"
  /\ transport = "inflight"
  /\ timer' = "cleared"
  /\ transport' = "settled"
  /\ completion' = Rejected(OnFetchError(op.provider,
                              fetchWithTimeoutCatch(op.provider, error)))
  /\ settled' = AfterCall(op, completion')
  /\ phase' = "done"
  /\ UNCHANGED <<op, response, json, fetches, interpVars, repairVars, factoryVars, envVars>>

\* fetchWithTimeout without the clearTimeout of its finally block
FetchRespondsTimerKept(r) ==
  /\ phase = "fetching"
  /\ transport = "inflight"
  /\ timer' = timer
  /\ transport' = "settled"
  /\ response' = r
  /\ phase' = "responded"
  /\ UNCHANGED <<op, json, fetches, completion, settled,
                 interpVars, repairVars, factoryVars, envVars>>

\* fetch resolves with a response before the timer has fired;
\* fetchWithTimeout clears the timer and complete goes on to read the body
FetchResponds(r) ==
  /\ phase = "fetching"
  /\ transport = "inflight"
  /\ timer' = "cleared"
  /\ transport' = "settled"
  /\ response' = r
  /\ phase' = "responded"
  /\ UNCHANGED <<op, json, fetches, completion, settled,
                 interpVars, repairVars, factoryVars, envVars>>

\* the body of the response has been read: complete ends and so does the
\* operation
BodyRead ==
  /\ phase = "responded"
  /\ json' = ResponseJson(response.body)
  /\ completion' = CompleteFromResponse(op.provider, response, json')
  /\ settled' = AfterCall(op, completion')
  /\ phase' = "done"
  /\ UNCHANGED <<op, timer, transport, response, fetches,
                 interpVars, repairVars, factoryVars, envVars>>

CallNext ==
  \/ Invoke
  \/ TimerFires
  \/ FetchAborted
  \/ \E error \in TransportFailures : FetchFails(error)
  \/ \E r \in Responses : FetchResponds(r)
  \/ BodyRead

SpecCall == CallInit /\ [][CallNext]_vars

\* a fetch whose signal has aborted rejects
SpecCallFair == SpecCall /\ WF_vars(FetchAborted)

(***************************************************************************)
(* getAvailableProviders and validateEnv in one environment                *)
(***************************************************************************)
EnvInit ==
  /\ env \in Envs
  /\ available = <<>>
  /\ validated = NotValidated
  /\ answer = NoAnswer
  /\ phase = "called"
  /\ InterpIdle
  /\ RepairIdle
  /\ FactoryIdle
  /\ CallIdle

GetAvailableProviders ==
  /\ phase = "called"
  /\ available' = getAvailableProviders(env)
  /\ phase' = "listed"
  /\ UNCHANGED <<env, validated, answer, interpVars, repairVars, factoryVars, callVars>>

ValidateEnv ==
  /\ phase = "called"
  /\ validated' = validateEnv(env)
  /\ phase' = "validated"
  /\ UNCHANGED <<env, available, answer, interpVars, repairVars, factoryVars, callVars>>

\* GET /health
Health ==
  /\ phase = "called"
  /\ available' = getAvailableProviders(env)
  /\ answer' = [NoAnswer EXCEPT !.op = "health",
                                !.default = EnvOr(env.DEFAULT_LLM_PROVIDER, "ollama")]
  /\ phase' = "answered"
  /\ UNCHANGED <<env, validated, interpVars, repairVars, factoryVars, callVars>>

\* GET /providers
Providers ==
  /\ phase = "called"
  /\ available' = getAvailableProviders(env)
  /\ answer' = [NoAnswer EXCEPT !.op = "providers",
                                !.default = EnvOr(env.DEFAULT_LLM_PROVIDER, "claude")]
  /\ phase' = "answered"
  /\ UNCHANGED <<env, validated, interpVars, repairVars, factoryVars, callVars>>

\* LLMFactory.createFromEnv(name): getConfigFromEnv, then create
CreateFromEnv(name) ==
  IF name \notin LLM_PROVIDERS
  THEN /\ last' = [NoCall EXCEPT !.op = "create", !.name = name, !.threw = TRUE]
       /\ UNCHANGED <<providers, heap, returned, calls>>
  ELSE LET config == getConfigFromEnv(env, name)
           key == cacheKey(name, config)
           hit == key \in DOMAIN providers
           made == createProvider(name, config)
           id == IF hit THEN providers[key] ELSE Len(heap) + 1
           threw == ~hit /\ made.threw
       IN /\ last' = [op |-> "create", name |-> name, config |-> config,
                      cached |-> hit, before |-> providers, netBefore |-> netCalls,
                      threw |-> threw, id |-> IF threw THEN 0 ELSE id]
          /\ calls' = calls + 1
          /\ IF hit \/ made.threw
             THEN UNCHANGED <<providers, heap>>
             ELSE /\ heap' = Append(heap, made.adapter)
                  /\ providers' = [k \in DOMAIN providers \cup {key} |->
                                     IF k = key THEN id ELSE providers[k]]
          /\ returned' = IF threw THEN returned
                         ELSE returned \cup {[name |-> name, model |-> config.model,
                                              id |-> id, clears |-> clears]}

\* getProvider(providerName) of the routes
GetProvider(providerName) ==
  LET name == EnvOr(providerName, EnvOr(env.DEFAULT_LLM_PROVIDER, "ollama"))
  IN /\ phase = "called"
     /\ IF name \notin LLM_PROVIDERS
        THEN /\ UNCHANGED <<providers, heap, returned, calls, last>>
             /\ answer' = [op |-> "getProvider", named |-> EnvTruthy(providerName),
                           default |-> name, threw |-> TRUE]
        ELSE /\ CreateFromEnv(name)
             /\ answer' = [op |-> "getProvider", named |-> EnvTruthy(providerName),
                           default |-> name, threw |-> last'.threw]
     /\ phase' = "answered"
     /\ UNCHANGED <<env, available, validated, clears, netCalls,
                    interpVars, repairVars, callVars>>

\* LLMFactory.getDefault()
GetDefault ==
  LET defaultProvider == EnvOr(env.DEFAULT_LLM_PROVIDER, "ollama")
  IN /\ phase = "called"
     /\ CreateFromEnv(defaultProvider)
     /\ answer' = [op |-> "getDefault", named |-> FALSE,
                   default |-> defaultProvider, threw |-> last'.threw]
     /\ phase' = "answered"
     /\ UNCHANGED <<env, available, validated, clears, netCalls,
                    interpVars, repairVars, callVars>>

\* the provider that the body of a request names: none, a known or any other
ProviderNames == {Unset, ""} \cup LLM_PROVIDERS \cup {"gpt5"}

EnvNext ==
  \/ GetAvailableProviders
  \/ ValidateEnv
  \/ Health
  \/ Providers
  \/ \E providerName \in ProviderNames : GetProvider(providerName)
  \/ GetDefault

SpecEnv == EnvInit /\ [][EnvNext]_vars

Spec == SpecInterp

(***************************************************************************)
(* Properties of LLMFactory (SpecFactory)                                  *)
(***************************************************************************)
\* C1: two create calls with the same name and the same model and no
\* clearCache between them return the same adapter; a create with another
\* model returns another adapter; an adapter returned after a clearCache is
\* none of the adapters returned before it.
C1InstancePerNameAndModel ==
  \A a \in returned : \A b \in returned :
    /\ (a.clears = b.clears /\ a.name = b.name /\ a.model = b.model => a.id = b.id)
    /\ (a.clears = b.clears /\ a.name = b.name /\ a.model # b.model => a.id # b.id)
    /\ (a.clears # b.clears => a.id # b.id)

NeedsKey == {"claude", "openai"}

\* C2 as stated: every create with a name that is not recognised, or with a
\* name that needs a credential and a config that carries none, throws,
\* whatever calls came before.
C2BadConfigAlwaysThrows ==
  last.op = "create"
  /\ (last.name \notin LLM_PROVIDERS
      \/ (last.name \in NeedsKey /\ last.config.apiKey = ""))
  => last.threw

\* C2 amended: a create with a name that is not recognised throws; a create
\* with a name that needs a credential and a config that carries none throws
\* unless an adapter is cached under the name and model of the call; a create
\* that throws leaves the cache as it was and sends no request; every adapter
\* that create returns for a name that needs a credential holds one.
C2BadConfigThrowsUnlessCached ==
  last.op = "create" =>
    /\ (last.name \notin LLM_PROVIDERS => last.threw)
    /\ (last.name \in NeedsKey /\ last.config.apiKey = "" /\ ~last.cached
          => last.threw)
    /\ (last.threw => providers = last.before /\ last.id = 0)
    /\ netCalls = last.netBefore
    /\ (~last.threw /\ last.name \in NeedsKey => heap[last.id].apiKey # "")

\* a create of claude without a credential has thrown after an adapter was
\* constructed and the cache was cleared
C2Witness ==
  /\ last.op = "create" /\ last.name = "claude" /\ last.config.apiKey = ""
  /\ last.threw /\ clears > 0 /\ Len(heap) > 0

(***************************************************************************)
(* Properties of generateTicket (SpecInterp)                               *)
(***************************************************************************)
Done == phase = "done"

Ticket == outcome.ticket

InputType == IF input.type = <<>> THEN Task ELSE input.type
InputPriority == IF input.priority = <<>> THEN Medium ELSE input.priority

NullReply == Wrapped("fenced-json", <<"n", "u", "l", "l">>)

\* replies in which no candidate is found or whose candidate no parse accepts
NoParsedBlock ==
  \/ fx.kind \in {"prose", "garbage"}
  \/ fx.kind = "block" /\ (fx.wrap = "bare-then-brace" \/ fx.f.content = Str(cTicks))

\* replies on which the try block of parseStructuredResponse fails
TryFails ==
  \/ NoParsedBlock
  \/ fx.kind = "primitive" /\ reply = NullReply
  \/ fx.kind = "block" /\ fx.f.content = Num(<<"7">>)

FieldsFromInput ==
  /\ Ticket.type = InputType
  /\ Ticket.priority = InputPriority
  /\ Ticket.labels = input.labels
  /\ ~Ticket.ai.type /\ ~Ticket.ai.priority /\ ~Ticket.ai.labels

\* blocks that a parse accepts and whose content is a falsy value that is no
\* string
FalsyContentBlock ==
  /\ fx.kind = "block" /\ ~NoParsedBlock
  /\ fx.f.content \in {Num(<<"0">>), JFalse, Null}

\* C3 as stated: generateTicket returns a record on every reply and every
\* input; in auto-detect mode, when no candidate is found, when no parse
\* accepts the candidate, when the parsed value is no object or when the
\* content of the block is no string, the record is the one of the raw
\* fallback: the cleaned reply as content, the fields of the input with the
\* defaults, no aiSuggested flag set.
C3FailuresEndInRawFallback ==
  Done =>
    /\ ~outcome.threw
    /\ (needsAutoDetect(input)
          /\ (TryFails \/ fx.kind = "primitive" \/ FalsyContentBlock) =>
          /\ FieldsFromInput
          /\ Ticket.content = cleanLLMOutput(reply))

\* C3 amended: generateTicket returns a record on every reply and every
\* input; in auto-detect mode, when no candidate is found, when no parse
\* accepts the candidate, when the parsed value is null or when the content
\* of the block is a truthy value that is no string, the record is the one of
\* the raw fallback, without aiSuggested member; a parsed value that is a
\* number, a string, a boolean or an array gives the content and the fields
\* of the raw fallback with the three aiSuggested flags false; a content that
\* is 0, false or null is treated as absent: the content is the cleaned reply
\* and type, priority and labels are those of the block.
C3InterpreterTotal ==
  Done =>
    /\ ~outcome.threw
    /\ (needsAutoDetect(input) /\ (TryFails \/ fx.kind = "primitive") =>
          /\ FieldsFromInput
          /\ Ticket.content = cleanLLMOutput(reply)
          /\ (TryFails => ~Ticket.ai.present))
    /\ (needsAutoDetect(input) /\ FalsyContentBlock =>
          /\ Ticket.content = cleanLLMOutput(reply)
          /\ Ticket.type = fx.f.type.s
          /\ Ticket.priority = fx.f.priority.s
          /\ Ticket.labels = <<sApi>>
          /\ Ticket.ai.present)

\* a block whose content is the number 7 has ended in the fallback record
C3Witness ==
  /\ Done /\ needsAutoDetect(input)
  /\ fx.kind = "block" /\ fx.f.content = Num(<<"7">>) /\ fx.wrap = "fenced-json"
  /\ ~outcome.threw /\ ~Ticket.ai.present /\ Ticket.type = InputType

\* blocks that the interpreter reads: fenced, every member well formed but
\* for the metadata members under test
ReadableBlock ==
  /\ fx.kind = "block" /\ fx.wrap = "fenced-json" /\ ~fx.lit
  /\ fx.f.content = Str(cHeadFix)

ValidTypeOf(v) == v.t = "string" /\ v.s \in VALID_TYPES
ValidPriorityOf(v) == v.t = "string" /\ v.s \in VALID_PRIORITIES

\* C4: for type, priority and labels, the record carries the value of the
\* input when the input supplies one and the parsed value is ignored;
\* otherwise it carries the valid parsed value; otherwise Task, Medium, [].
C4CallerFieldsWin ==
  Done /\ ReadableBlock
  /\ fx.f.labels \in {Undef, Arr(<<>>), Arr(<<Str(sApi)>>), Str(sApi)}
  =>
    /\ Ticket.type = IF input.type # <<>> THEN input.type
                     ELSE IF ValidTypeOf(fx.f.type) THEN fx.f.type.s ELSE Task
    /\ Ticket.priority = IF input.priority # <<>> THEN input.priority
                         ELSE IF ValidPriorityOf(fx.f.priority)
                              THEN fx.f.priority.s ELSE Medium
    /\ Ticket.labels = IF input.labels # <<>> THEN input.labels
                       ELSE IF fx.f.labels = Arr(<<Str(sApi)>>) THEN <<sApi>>
                       ELSE <<>>

\* C5: the type of every record returned is one of VALID_TYPES and its
\* priority one of VALID_PRIORITIES; a parsed type or priority that is no
\* member of its enumeration is treated as absent: the field comes from the
\* input or is the default, and its aiSuggested flag is not set.
C5EnumsOnly ==
  Done =>
    /\ ~outcome.threw
    /\ Ticket.type \in VALID_TYPES
    /\ Ticket.priority \in VALID_PRIORITIES
    /\ (ReadableBlock /\ ~ValidTypeOf(fx.f.type)
          => Ticket.type = InputType /\ ~Ticket.ai.type)
    /\ (ReadableBlock /\ ~ValidPriorityOf(fx.f.priority)
          => Ticket.priority = InputPriority /\ ~Ticket.ai.priority)

\* a block with the type "bug" and an input without type have given Task
C5Witness ==
  /\ Done /\ ReadableBlock /\ input.type = <<>>
  /\ fx.f.type = Str(<<"b", "u", "g">>)
  /\ fx.f.priority = Str(<<"U", "r", "g", "e", "n", "t">>)
  /\ Ticket.type = Task /\ Ticket.ai.present

\* C6: the labels of every record returned are at most 10, each of them
\* non-empty and without an uppercase character.
C6LabelsCleanAndFew ==
  Done =>
    /\ Len(Ticket.labels) <= 10
    /\ \A n \in 1..Len(Ticket.labels) :
         /\ Ticket.labels[n] # <<>>
         /\ \A m \in 1..Len(Ticket.labels[n]) : Ticket.labels[n][m] \notin UpperChars

\* C7: when no candidate is found or no parse accepts the candidate, type,
\* priority and labels of the record are those of the input (Task and Medium
\* when the input has none) and the record has no aiSuggested member.
C7FallbackMetadata ==
  Done /\ NoParsedBlock => FieldsFromInput /\ ~Ticket.ai.present

\* a reply whose candidate is no JSON text, with an input that has a type and
\* labels but no priority
C7Witness ==
  /\ Done /\ fx.kind = "garbage"
  /\ input.type = Story /\ input.priority = <<>> /\ input.labels = <<sUi>>
  /\ Ticket.type = Story /\ Ticket.priority = Medium /\ Ticket.labels = <<sUi>>

BodyLessHeading ==
  IF At(fx.body, 1, <<"#", "#", SP>>)
  THEN Sub(fx.body, FirstIn(fx.body, {NL}, 1) + 1, Len(fx.body))
  ELSE fx.body

WellFormedBlock ==
  /\ fx.kind = "block" /\ ~fx.lit
  /\ fx.f.title = Str(sFix) /\ ValidTypeOf(fx.f.type)
  /\ ValidPriorityOf(fx.f.priority) /\ fx.f.labels = Arr(<<Str(sApi)>>)
  /\ fx.f.content.t = "string"

\* C10: for a reply that embeds a block whose members are well formed and
\* whose control characters are escaped, fenced or not, with or without text
\* around it, and an input without title, type, priority and labels, a
\* candidate is found, JSON.parse accepts it and title, type, priority and
\* labels of the record are those of the block.
C10WellFormedBlockRead ==
  Done /\ WellFormedBlock
  /\ input = [title |-> <<>>, type |-> <<>>, priority |-> <<>>, labels |-> <<>>]
  =>
    /\ jsonMatch.found
    /\ parseOut.directOk
    /\ Ticket.title = fx.f.title
    /\ Ticket.type = fx.f.type.s
    /\ Ticket.priority = fx.f.priority.s
    /\ Ticket.labels = <<sApi>>

(***************************************************************************)
(* Properties of safeParseJSON (SpecRepair)                                *)
(***************************************************************************)
CaseHasControl ==
  HasControl(repairCase.title) \/ HasControl(repairCase.content)
    \/ HasControl(repairCase.label)

\* the value of the same block with the control characters written \n, \r, \t
PreEscaped ==
  JSONparse(SerValue(RepairObject(repairCase), FALSE, repairCase.pretty))

\* C9: for a block whose only defect is a literal newline, carriage return or
\* tab inside its strings, JSON.parse rejects the block, safeParseJSON
\* returns a value, and that value is the value JSON.parse gives for the
\* same block with these characters escaped; its content is the content the
\* block was built from.
C9RepairRoundTrip ==
  Done /\ CaseHasControl =>
    /\ ~parseOut.directOk
    /\ parseOut.repaired.ok
    /\ PreEscaped.ok
    /\ parseOut.repaired.v = PreEscaped.v
    /\ Get(parseOut.repaired.v, kContent) = Str(repairCase.content)
    /\ Get(parseOut.repaired.v, kTitle) = Str(repairCase.title)

\* a content made of a quote and a literal carriage return has been repaired
C9Witness ==
  /\ Done /\ repairCase.content = <<QUOTE, CR>>
  /\ ~parseOut.directOk /\ parseOut.repaired.ok
  /\ Get(parseOut.repaired.v, kContent) = Str(<<QUOTE, CR>>)

(***************************************************************************)
(* Properties of the adapters and of fetchWithTimeout (SpecCall)           *)
(***************************************************************************)
Normalized(e) ==
  /\ e.name = "LLMApiError"
  /\ e.provider = op.provider
  /\ e.statusCode \in Nat

DeadlineExpired == phase = "fetching" /\ timer = "fired"

TimedOut ==
  /\ phase = "done"
  /\ completion.state = "rejected"
  /\ Normalized(completion.error)
  /\ completion.error.statusCode = 408

\* C11: when the timer of fetchWithTimeout fires before fetch has resolved,
\* the request is aborted, and the call always ends: complete rejects with an
\* LLMApiError of the adapter whose statusCode is 408; the call never returns
\* a result and no response is taken from it.
C11DeadlineEndsIn408 ==
  /\ [](timer = "fired" =>
          /\ transport = "aborted"
          /\ completion.state # "fulfilled"
          /\ response = NoResponse
          /\ (phase = "done" => TimedOut))
  /\ (DeadlineExpired ~> TimedOut)

\* the timer of a call to Ollama has fired and complete has rejected with 408
C11Witness ==
  /\ timer = "fired" /\ TimedOut /\ op.provider = "ollama"
  /\ completion.error.message = <<"Request", "timed", "out">>

CompleteFailed == phase = "done" /\ completion.state = "rejected"

\* C12: whenever complete of an adapter fails (failure of the transport,
\* timeout, a status that is not 2xx, a 2xx body that is no JSON text or
\* lacks the fields read from it), what it throws is an LLMApiError with the
\* name of the adapter and a statusCode.
C12EveryFailureNormalized == CompleteFailed => Normalized(completion.error)

\* the message the error of a response that is not ok must carry: the
\* message of the body, "HTTP {status}" when the body has none
ErrorTextOf(v) == [readable |-> TRUE, text |-> SerValue(v, FALSE, FALSE)]

ExpectedMessages ==
  CASE response.body = ErrorTextOf(ErrorBody) -> {<<"m">>}
    [] response.body = ErrorTextOf(OllamaErrorBody) ->
         {<<"m">>, HttpStatus(response.status)}
    [] OTHER -> {HttpStatus(response.status)}

\* C13: when the response is not 2xx, complete throws an LLMApiError whose
\* statusCode is the status of the response and whose message is the message
\* of the error body, or "HTTP {status}" when the body is not readable, is no
\* JSON text or has no message.
C13UpstreamErrorMapped ==
  phase = "done" /\ response # NoResponse /\ ~ResponseOk(response) =>
    /\ completion.state = "rejected"
    /\ Normalized(completion.error)
    /\ completion.error.statusCode = response.status
    /\ completion.error.message \in ExpectedMessages

\* C14: a failure of the transport with the timer not fired (a refused
\* connection among them) ends in an LLMApiError with statusCode 0; a
\* statusCode other than 0 and 408 is the status of a response that arrived.
C14TransportFailureIsZero ==
  CompleteFailed =>
    /\ (response = NoResponse /\ timer # "fired" =>
          Normalized(completion.error) /\ completion.error.statusCode = 0)
    /\ (Normalized(completion.error) /\ completion.error.statusCode \notin {0, 408}
          => response # NoResponse
             /\ completion.error.statusCode = response.status)

\* C15: an invocation of an operation calls fetch at most once; when complete
\* rejects, the operation rejects with the very error of complete and gives
\* no value, and nothing is called after the operation has ended.
C15OneCallSameError ==
  /\ [](fetches <= 1)
  /\ [](phase = "done" /\ completion.state = "rejected" =>
          settled = completion /\ settled.value = Undef)
  /\ [][phase = "done" => fetches' = fetches /\ settled' = settled]_vars

\* generateTitle has made its one call, the backend has answered 500 and the
\* operation has rejected with the error of the adapter
C15Witness ==
  /\ op.kind = "generateTitle" /\ phase = "done" /\ fetches = 1
  /\ settled.state = "rejected"
  /\ settled.error = LLMApiError(op.provider, 500, HttpStatus(500))

(***************************************************************************)
(* Properties of getAvailableProviders and validateEnv (SpecEnv)           *)
(***************************************************************************)
Listed == {available[i] : i \in 1..Len(available)}

IsSet(v) == v \notin {Unset, ""}

\* LLMFactory.createFromEnv(name) constructs an adapter
Usable(name) == ~createProvider(name, getConfigFromEnv(env, name)).threw

\* C16: getAvailableProviders lists a backend that needs a credential exactly
\* when the credential is set, lists the local backend whenever an adapter
\* for it can be made from the environment, sends no request and leaves the
\* cache of the factory and the environment as they were.
C16ListsExactlyTheConfigured ==
  phase = "listed" =>
    /\ ("claude" \in Listed <=> IsSet(env.ANTHROPIC_API_KEY))
    /\ ("openai" \in Listed <=> IsSet(env.OPENAI_API_KEY))
    /\ ("gemini" \in Listed <=> IsSet(env.GOOGLE_AI_API_KEY))
    /\ (Usable("ollama") => "ollama" \in Listed)
    /\ providers = EmptyCache /\ heap = <<>> /\ netCalls = 0 /\ fetches = 0

EffectiveDefault ==
  IF IsSet(env.DEFAULT_LLM_PROVIDER) THEN env.DEFAULT_LLM_PROVIDER ELSE "ollama"

DefaultKeyMissing ==
  \/ EffectiveDefault = "claude" /\ ~IsSet(env.ANTHROPIC_API_KEY)
  \/ EffectiveDefault = "openai" /\ ~IsSet(env.OPENAI_API_KEY)
  \/ EffectiveDefault = "gemini" /\ ~IsSet(env.GOOGLE_AI_API_KEY)

\* C17: validateEnv throws exactly when DEFAULT_LLM_PROVIDER is set to a
\* name that is none of claude, openai, gemini and ollama, or when the
\* default provider (ollama when none is set) needs a key that is not set;
\* the keys of the other providers play no part.
C17ValidateEnvThrowsExactly ==
  phase = "validated" =>
    (validated.threw <=>
       \/ EffectiveDefault \notin {"claude", "openai", "gemini", "ollama"}
       \/ DefaultKeyMissing)

\* validateEnv has passed with claude as the default and its key set, while
\* the keys of openai and gemini are missing
C17Witness ==
  /\ phase = "validated" /\ ~validated.threw
  /\ env.DEFAULT_LLM_PROVIDER = "claude" /\ env.ANTHROPIC_API_KEY = "k"
  /\ env.OPENAI_API_KEY = Unset /\ env.GOOGLE_AI_API_KEY = ""
  /\ validated.warned = {"OPENAI_API_KEY", "GOOGLE_AI_API_KEY"}

(***************************************************************************)
(* Properties of the extraction, of the leading heading and of the derived *)
(* title (SpecInterp)                                                      *)
(***************************************************************************)
\* the text of the block of a reply, as the backend wrote it
BlockText == SerValue(BlockObject(fx.f), fx.lit, fx.pretty)

\* a reply with one block and no fence inside the block
OneBlock == fx.kind = "block" /\ fx.f.content # Str(cTicks)

\* C18: in auto-detect mode the candidate is the inside of the first fenced
\* block when the reply holds one; without a fence it is the first balanced
\* {...} span, from the first "{" to its matching "}", whatever follows it;
\* a reply with neither has no candidate and gets the fallback record.
C18CandidateChoice ==
  Done /\ needsAutoDetect(input) =>
    /\ (OneBlock => jsonMatch = [found |-> TRUE, str |-> BlockText])
    /\ (fx.kind = "prose" =>
          ~jsonMatch.found /\ structured = Returned(FallbackTicket(reply, input)))

\* the block of the reply was parsed and its content, a text that begins
\* with a level-2 heading, went into the record
HeadedBlock ==
  /\ Done /\ needsAutoDetect(input) /\ fx.kind = "block" /\ ~outcome.threw
  /\ structured.ticket.ai # NoAi
  /\ fx.f.content \in {Str(cHeadFix), Str(cHeadOld), Str(cHeadTwice)}

\* C19: a heading at the start of the content whose text is the title of the
\* record is removed, once: a second such heading stays; a heading at the
\* start of the content whose text is not the title of the record stays.
C19HeadingEqualToTitleRemovedOnce ==
  HeadedBlock =>
    Ticket.content =
      CASE fx.f.content = Str(cHeadFix) /\ Ticket.title = Str(sFix) ->
             <<"#", "#", "#", SP, "b">>
        [] fx.f.content = Str(cHeadTwice) /\ Ticket.title = Str(sFix) ->
             <<"#", "#", SP>> \o sFix \o <<NL, "b">>
        [] OTHER -> fx.f.content.s

\* the title that a reply without block must get when the input has none:
\* the text of its heading, else its first line without heading marks
ProseTitle ==
  CASE fx.head = <<"#", "#", SP, "S", "o", "m", "e", NL, NL>> -> <<"S", "o", "m", "e">>
    [] fx.head = <<"#", "#", TAB, "A", SP, "b", NL>> -> <<"A", SP, "b">>
    [] fx.body = <<"#", "#", "#", SP, "C", NL, "x">> -> <<"C">>
    [] fx.body = <<"#", "#", SP, "B", NL, "y">> -> <<"B">>
    [] OTHER -> fx.body

\* C20: when the input has no title and the reply has no block, the title of
\* the record is the text of the first heading of the reply, or else its
\* first non-empty line, cut to MaxTitleLen characters; it is not empty.
C20DerivedTitle ==
  Done /\ fx.kind = "prose" /\ input.title = <<>> =>
    /\ ~outcome.threw
    /\ Ticket.title = Str(ProseTitle)
    /\ Ticket.title.s # <<>> /\ Len(Ticket.title.s) <= MaxTitleLen

(***************************************************************************)
(* Properties of aiSuggested and of the detected labels (SpecInterp)       *)
(***************************************************************************)
\* the string entries of the labels of the block, in their order, as far as
\* the block may give them to the record
BlockLabels ==
  CASE fx.f.labels = TwelveLabels ->
         [n \in 1..10 |-> TwelveLabels.a[n].s]
    [] fx.f.labels = Arr(<<Num(<<"1">>), Str(sDb), Null, Str(sUi)>>) -> <<sDb, sUi>>
    [] fx.f.labels = Arr(<<Str(<<"A", "P", "I">>), Str(<<>>)>>) ->
         <<<<"A", "P", "I">>, <<>>>>
    [] fx.f.labels = Arr(<<Str(sApi)>>) -> <<sApi>>
    [] OTHER -> <<>>

\* the value of the record can only be the one of the block: the block has
\* a valid one, the record carries it and the input has none or another one
TypeFromBlock ==
  ValidTypeOf(fx.f.type) /\ Ticket.type = fx.f.type.s /\ input.type # Ticket.type
PriorityFromBlock ==
  /\ ValidPriorityOf(fx.f.priority) /\ Ticket.priority = fx.f.priority.s
  /\ input.priority # Ticket.priority
LabelsFromBlock ==
  BlockLabels # <<>> /\ Ticket.labels = BlockLabels /\ input.labels # Ticket.labels

\* the record was made by parseStructuredResponse from a block it has read
MadeFromBlock == Done /\ ReadableBlock /\ needsAutoDetect(input)

\* C21: in a record made from a parsed block, the aiSuggested flag of type,
\* of priority and of labels is set exactly when the value of the field in
\* the record was taken from the block and not from the input or the default.
C21AiSuggestedIsProvenance ==
  MadeFromBlock =>
    /\ Ticket.ai.present
    /\ (Ticket.ai.type <=> TypeFromBlock)
    /\ (Ticket.ai.priority <=> PriorityFromBlock)
    /\ (Ticket.ai.labels <=> LabelsFromBlock)

\* C22: when the record takes its labels from the block, they are the first
\* MaxDetectedLabels string entries of the parsed array in their order, the
\* other entries being dropped; a labels member that is no array, or that
\* holds no string, leaves the labels of the input in the record.
C22LabelsFirstTenInOrder ==
  MadeFromBlock =>
    /\ Ticket.labels = IF BlockLabels # <<>> THEN BlockLabels ELSE input.labels
    /\ Len(BlockLabels) <= MaxDetectedLabels

\* a block with twelve labels gave the record its first ten, and a block
\* whose labels are a string left the labels of the input in the record
C22Witness ==
  /\ MadeFromBlock
  /\ fx.f.labels = TwelveLabels
  /\ Len(Ticket.labels) = 10 /\ Ticket.labels[10] = <<"l", "0">>
  /\ Ticket.labels[1] = <<"l", "1">> /\ input.labels = <<sUi>>

(***************************************************************************)
(* Properties of the cache of LLMFactory under interleaved calls           *)
(* (SpecFactory)                                                           *)
(***************************************************************************)
\* every field that the constructor of the adapter of name assigns is set
FullyConstructed(a, name) ==
  /\ a.name = name
  /\ a.model \notin {NoModel, ""}
  /\ a.baseUrl # ""
  /\ a.timeout > 0
  /\ (name \in NeedsKey => a.apiKey # "")

\* C23: in every interleaving of create, clearCache and complete, a create
\* that returns gives an adapter of the name asked for with every field set,
\* each key of the cache holds one adapter of its name and no adapter is held
\* under two keys, and no call alters an adapter constructed before it: an
\* adapter returned before a clearCache is as it was when complete uses it.
C23CacheUnderInterleaving ==
  [][/\ \A i \in 1..Len(heap) : i <= Len(heap') /\ heap'[i] = heap[i]
     /\ \A k \in DOMAIN providers' :
          /\ providers'[k] \in 1..Len(heap')
          /\ heap'[providers'[k]].name = k[1]
     /\ \A j \in DOMAIN providers' : \A k \in DOMAIN providers' :
          providers'[j] = providers'[k] => j = k
     /\ (last'.op = "create" /\ ~last'.threw
           => FullyConstructed(heap'[last'.id], last'.name))
     /\ (last'.op = "clearCache" => providers' = EmptyCache /\ returned' = returned)
     /\ (last'.op = "complete"
           => last'.id \in 1..Len(heap) /\ providers' = providers)]_vars

\* complete has been called on an adapter that was returned before a
\* clearCache and that the cache holds no more
C23Witness ==
  /\ last.op = "complete"
  /\ \E r \in returned : r.id = last.id /\ r.clears < clears
  /\ \A k \in DOMAIN providers : providers[k] # last.id
  /\ FullyConstructed(heap[last.id], heap[last.id].name)

\* C25: no two create calls whose name or model differ, a model left out
\* being another model than any model given, return the same adapter.
C25NoAdapterSharedByTwoPairs ==
  \A a \in returned : \A b \in returned :
    a.id = b.id => a.name = b.name /\ a.model = b.model

(***************************************************************************)
(* Properties of cached adapters under changing configs (SpecReconfigure)  *)
(***************************************************************************)
\* the adapters that create returned for the name and model of the call
\* since the last clearCache
ReturnedFor(name, config) ==
  {r \in returned : r.clears = clears /\ r.name = name /\ r.model = config.model}

\* C26: a create for a name and model for which create has returned an
\* adapter since the last clearCache returns that adapter and constructs
\* none, whatever credential, endpoint and timeout its config holds, and no
\* adapter constructed before is altered; any other create that returns
\* gives a new adapter constructed from the config of the call.
C26StaleUntilClear ==
  [][last'.op = "create" /\ ~last'.threw =>
       /\ \A i \in 1..Len(heap) : heap'[i] = heap[i]
       /\ IF ReturnedFor(last'.name, last'.config) # {}
          THEN /\ \A r \in ReturnedFor(last'.name, last'.config) : last'.id = r.id
               /\ heap' = heap
          ELSE /\ last'.id = Len(heap) + 1
               /\ heap' = Append(heap, createProvider(last'.name, last'.config).adapter)
    ]_vars

\* create was called with another credential, endpoint and timeout than the
\* cached adapter of its key holds and has returned that adapter
C26Witness ==
  /\ last.op = "create" /\ last.cached /\ ~last.threw /\ last.name = "claude"
  /\ last.config.apiKey = "k2" /\ heap[last.id].apiKey = "k"
  /\ last.config.baseUrl = "http://h:11434"
  /\ heap[last.id].baseUrl = "https://api.anthropic.com"
  /\ last.config.timeout = 5 /\ heap[last.id].timeout = 60000
  /\ clears > 0

(***************************************************************************)
(* Properties of a create that throws (SpecFactory)                        *)
(***************************************************************************)
\* a config with which the constructor of the adapter of name returns
ValidConfig(name, config) ==
  \/ name \in NeedsKey /\ config.apiKey # ""
  \/ name = "ollama"

\* C27: a create that throws adds no entry to the cache and removes none and
\* constructs nothing; a create that follows it for a key that the cache
\* holds returns the adapter of the key; a create that follows it for the key
\* of the failed call with a config that the constructor accepts constructs
\* an adapter with every field set and caches it under the key.
C27FailedCreateLeavesCache ==
  [][last'.op = "create" =>
       LET key == cacheKey(last'.name, last'.config)
       IN /\ (last'.threw =>
                /\ providers' = providers /\ heap' = heap /\ returned' = returned
                /\ key \notin DOMAIN providers)
          /\ (last.op = "create" /\ last.threw /\ key \in DOMAIN providers =>
                ~last'.threw /\ last'.id = providers[key] /\ providers' = providers)
          /\ (/\ last.op = "create" /\ last.threw
              /\ key = cacheKey(last.name, last.config)
              /\ ValidConfig(last'.name, last'.config)
              => /\ ~last'.threw
                 /\ last'.id = Len(heap) + 1
                 /\ key \in DOMAIN providers' /\ providers'[key] = last'.id
                 /\ FullyConstructed(heap'[last'.id], last'.name))
    ]_vars

\* a create of the backend that is not implemented has thrown while the
\* cache held two adapters, and the cache holds them still
C27Witness ==
  /\ last.op = "create" /\ last.threw /\ last.name = "gemini"
  /\ last.config.apiKey = "k"
  /\ providers = last.before /\ Cardinality(DOMAIN providers) = 2

(***************************************************************************)
(* Properties of the timer of fetchWithTimeout (SpecCall)                  *)
(***************************************************************************)
\* complete has been called and has neither returned nor thrown
CompletePending == phase \in {"fetching", "responded"}

\* C24: as long as complete is pending, while the body of the response is
\* read included, the timer of its deadline is armed or has fired and
\* aborted the request.
C24DeadlineCoversWholeCall ==
  CompletePending => timer \in {"armed", "fired"}

\* C29: the timer is cleared in the step in which fetch resolves or rejects
\* with a failure of the transport; it fires only while it is armed and the
\* request is in flight, and at most once in a call; it is armed only while
\* fetch is pending: it is not armed while the body is read nor after the
\* call has returned or thrown.
C29TimerCleanup ==
  /\ [](timer = "armed" => phase = "fetching" /\ transport = "inflight")
  /\ [](phase \in {"responded", "done"} /\ fetches > 0
          => timer \in {"cleared", "fired"})
  /\ [](timer = "fired" => transport = "aborted" /\ response = NoResponse)
  /\ [](fetches <= 1)
  /\ [][/\ (transport = "inflight" /\ transport' = "settled" => timer' = "cleared")
        /\ (timer' = "fired" /\ timer # "fired"
              => timer = "armed" /\ transport = "inflight" /\ transport' = "aborted")
        /\ (timer \in {"fired", "cleared"} => timer' = timer)
        /\ (transport \in {"aborted", "settled"} => transport' = transport)]_vars

\* fetch has rejected with a failure of the transport, the timer is cleared
\* and complete has thrown
C29Witness ==
  /\ phase = "done" /\ fetches = 1 /\ timer = "cleared" /\ transport = "settled"
  /\ completion.state = "rejected" /\ response = NoResponse

(***************************************************************************)
(* Properties of the routes, getProvider and getDefault (SpecEnv)          *)
(***************************************************************************)
\* the names that getAvailableProviders returns in the environment
ListedInEnv ==
  {getAvailableProviders(env)[i] : i \in 1..Len(getAvailableProviders(env))}

\* C28: getProvider called with the name of a backend returns an adapter
\* whenever getAvailableProviders lists the name in the same environment, and
\* a name for which it returns an adapter is one that getAvailableProviders
\* lists.
C28ListedAreResolvable ==
  answer.op = "getProvider" /\ answer.named /\ answer.default \in LLM_PROVIDERS =>
    /\ (answer.default \in ListedInEnv => ~answer.threw)
    /\ (~answer.threw => answer.default \in ListedInEnv)

\* C30: the default name that GET /health and GET /providers report and the
\* name that getProvider, called without a name, and getDefault resolve are
\* the name that validateEnv checks: DEFAULT_LLM_PROVIDER when it is set,
\* ollama otherwise.
C30DefaultAgreement ==
  answer.op # "none" /\ ~answer.named => answer.default = EffectiveDefault

====
